---- MODULE Spec2Model ----
(***************************************************************************)
(* Model of the Ocient datasource: the backend query pipeline              *)
(* (query -> executeQuery -> convertToDataFrames) and the frontend's       *)
(* distinct-value browsing (getDistinctValueCount,                         *)
(* getDistinctColumnValues, the query editor's loadDistinctValues).        *)
(***************************************************************************)
EXTENDS Integers, Sequences, FiniteSets, Bags, TLC

(***************************************************************************)
(* Bounds of the model.                                                    *)
(***************************************************************************)
\* Largest number of rows of a RowSet handed to convertToDataFrames.
MaxRows == 2
\* Largest number of distinct non-null values of the browsed column.
MaxDistinct == 150
\* Small numbers of distinct values are taken from 0..SmallDistinct.
SmallDistinct == 3
\* The most columns selected and the most WHERE clauses of a built query.
MaxSelected == 2
MaxClauses == 2
\* The most distinct-value requests of the modal in flight at once.
MaxPending == 1
MaxPage == 2
MaxPieces == 2
MaxCalls == 2
\* The queries of one QueryData request.
MaxQueries == 3

(***************************************************************************)
(* Program constants.                                                      *)
(***************************************************************************)
\* const PAGE_SIZE = 100 (the query editor's page size).
PAGE_SIZE == 100
\* options?.limit || 100 (getDistinctColumnValues' default limit).
DefaultLimit == 100

(***************************************************************************)
(* Strings.  TLC applies Len, SubSeq and \o to strings, so a string is     *)
(* read character by character as SubSeq(s, i, i).                         *)
(***************************************************************************)
Digits == {"0", "1", "2", "3", "4", "5", "6", "7", "8", "9"}

CharAt(s, i) == IF 1 <= i /\ i <= Len(s) THEN SubSeq(s, i, i) ELSE ""

\* isDigit(s, i) of Go's time package: an index past the end is no digit.
IsDigitAt(s, i) == CharAt(s, i) \in Digits

DigitVal(c) ==
    CASE c = "0" -> 0 [] c = "1" -> 1 [] c = "2" -> 2 [] c = "3" -> 3
      [] c = "4" -> 4 [] c = "5" -> 5 [] c = "6" -> 6 [] c = "7" -> 7
      [] c = "8" -> 8 [] c = "9" -> 9

\* The value of the decimal digits s[from..to] (0 when the range is empty).
RECURSIVE DigitsVal(_, _, _)
DigitsVal(s, from, to) ==
    IF to < from THEN 0
    ELSE 10 * DigitsVal(s, from, to - 1) + DigitVal(CharAt(s, to))

\* The index of the first character at or after i that is no digit.
RECURSIVE SkipDigits(_, _)
SkipDigits(s, i) == IF IsDigitAt(s, i) THEN SkipDigits(s, i + 1) ELSE i

\* cutspace: the index of the first character at or after i that is no space.
RECURSIVE CutSpace(_, _)
CutSpace(s, i) == IF CharAt(s, i) = " " THEN CutSpace(s, i + 1) ELSE i

RECURSIVE Pow10(_)
Pow10(n) == IF n <= 0 THEN 1 ELSE 10 * Pow10(n - 1)

(***************************************************************************)
(* time.Time and time.Parse, as convertToDataFrames uses them.             *)
(***************************************************************************)
\* A time.Time: its wall-clock fields and its zone offset in seconds.
MkTime(y, mo, d, h, mi, s, ns, off) ==
    [year |-> y, month |-> mo, day |-> d, hour |-> h, min |-> mi,
     sec |-> s, nsec |-> ns, offset |-> off]

\* time.Time{}: January 1, year 1, 00:00:00.000000000 UTC.
ZeroTime == MkTime(1, 1, 1, 0, 0, 0, 0, 0)

BadParse == [ok |-> FALSE, t |-> ZeroTime]

IsLeap(y) == y % 4 = 0 /\ (y % 100 # 0 \/ y % 400 = 0)

DaysIn(mo, y) ==
    IF mo = 2 THEN (IF IsLeap(y) THEN 29 ELSE 28)
    ELSE IF mo \in {4, 6, 9, 11} THEN 30 ELSE 31

\* getnum(s, fixed): one or two digits at i; two are required when fixed.
GetNum(s, i, fixed) ==
    IF ~IsDigitAt(s, i) THEN [ok |-> FALSE, n |-> 0, next |-> i]
    ELSE IF ~IsDigitAt(s, i + 1)
         THEN IF fixed THEN [ok |-> FALSE, n |-> 0, next |-> i]
              ELSE [ok |-> TRUE, n |-> DigitVal(CharAt(s, i)), next |-> i + 1]
         ELSE [ok |-> TRUE, n |-> DigitsVal(s, i, i + 1), next |-> i + 2]

\* skip(value, prefix) for a one-character prefix: a space of the layout
\* matches any run of spaces (or the end of the value), any other character
\* matches itself.
SkipPrefix(s, i, c) ==
    IF c = " "
    THEN IF i <= Len(s) /\ CharAt(s, i) # " "
         THEN [ok |-> FALSE, next |-> i]
         ELSE [ok |-> TRUE, next |-> CutSpace(s, i)]
    ELSE IF CharAt(s, i) = c THEN [ok |-> TRUE, next |-> i + 1]
         ELSE [ok |-> FALSE, next |-> i]

CommaOrPeriod(c) == c \in {".", ","}

\* parseNanoseconds on the digits s[from..to]: at most nine are read, and the
\* value is scaled to nanoseconds.
Nanoseconds(s, from, to) ==
    LET last == IF to - from + 1 > 9 THEN from + 8 ELSE to
    IN  DigitsVal(s, from, last) * Pow10(9 - (last - from + 1))

\* A fractional second at i, "." or "," and then digits: any number of digits
\* is consumed.  Absent, nothing is consumed.
Fraction(s, i) ==
    IF CommaOrPeriod(CharAt(s, i)) /\ IsDigitAt(s, i + 1)
    THEN LET e == SkipDigits(s, i + 1)
         IN  [nsec |-> Nanoseconds(s, i + 1, e - 1), next |-> e]
    ELSE [nsec |-> 0, next |-> i]

\* The zone of the layout element Z07:00 at i: "Z", or a sign and hh:mm.
Zone(s, i) ==
    IF CharAt(s, i) = "Z" THEN [ok |-> TRUE, offset |-> 0, next |-> i + 1]
    ELSE IF Len(s) - i + 1 < 6 \/ CharAt(s, i + 3) # ":"
         THEN [ok |-> FALSE, offset |-> 0, next |-> i]
         ELSE LET hr == GetNum(SubSeq(s, i + 1, i + 2), 1, TRUE)
                  mm == GetNum(SubSeq(s, i + 4, i + 5), 1, TRUE)
                  sg == CharAt(s, i)
                  off == (hr.n * 60 + mm.n) * 60
              IN  IF ~hr.ok \/ ~mm.ok \/ hr.n > 24 \/ mm.n > 60
                     \/ sg \notin {"+", "-"}
                  THEN [ok |-> FALSE, offset |-> 0, next |-> i]
                  ELSE [ok |-> TRUE,
                        offset |-> IF sg = "-" THEN 0 - off ELSE off,
                        next |-> i + 6]

\* time.Parse for the three layouts of convertToDataFrames, which differ in
\* the separator between date and time (sep) and in whether a zone follows
\* the seconds (zoned):
\*   "2006-01-02 15:04:05.999999999"  sep " ", no zone
\*   "2006-01-02T15:04:05Z07:00"      sep "T", zone
\*   "2006-01-02 15:04:05"            sep " ", no zone
\* A fractional second after the seconds is read whether the layout names it
\* (.999999999) or not (the stdSecond special case).
ParseLayout(s, sep, zoned) ==
    IF Len(s) < 4 \/ SkipDigits(s, 1) < 5 THEN BadParse
    ELSE
    LET year == DigitsVal(s, 1, 4)
        p1 == SkipPrefix(s, 5, "-")
        mo == GetNum(s, p1.next, TRUE)
        p2 == SkipPrefix(s, mo.next, "-")
        dd == GetNum(s, p2.next, TRUE)
        p3 == SkipPrefix(s, dd.next, sep)
        hh == GetNum(s, p3.next, FALSE)
        p4 == SkipPrefix(s, hh.next, ":")
        mi == GetNum(s, p4.next, TRUE)
        p5 == SkipPrefix(s, mi.next, ":")
        ss == GetNum(s, p5.next, TRUE)
    IN  IF ~p1.ok \/ ~mo.ok \/ mo.n < 1 \/ mo.n > 12 THEN BadParse
        ELSE IF ~p2.ok \/ ~dd.ok THEN BadParse
        ELSE IF ~p3.ok \/ ~hh.ok \/ hh.n >= 24 THEN BadParse
        ELSE IF ~p4.ok \/ ~mi.ok \/ mi.n >= 60 THEN BadParse
        ELSE IF ~p5.ok \/ ~ss.ok \/ ss.n >= 60 THEN BadParse
        ELSE
        LET fr == Fraction(s, ss.next)
            zn == IF zoned THEN Zone(s, fr.next)
                  ELSE [ok |-> TRUE, offset |-> 0, next |-> fr.next]
        IN  IF ~zn.ok THEN BadParse
            ELSE IF zn.next <= Len(s) THEN BadParse      \* extra text
            ELSE IF dd.n < 1 \/ dd.n > DaysIn(mo.n, year) THEN BadParse
            ELSE [ok |-> TRUE,
                  t |-> MkTime(year, mo.n, dd.n, hh.n, mi.n, ss.n,
                                fr.nsec, zn.offset)]

\* time.Parse(ocientTimestampFormat, strVal)
ParseOcient(s) == ParseLayout(s, " ", FALSE)
\* time.Parse(time.RFC3339, strVal)
ParseRFC3339(s) == ParseLayout(s, "T", TRUE)
\* time.Parse("2006-01-02 15:04:05", strVal)
ParseDateTime(s) == ParseLayout(s, " ", FALSE)

(***************************************************************************)
(* JSON values as encoding/json decodes them into interface{}: float64,    *)
(* string, bool, nil, and nested values ([]interface{}).  The field t is   *)
(* the dynamic type and v the value.  Numbers of the model are float64     *)
(* values that are whole and below 10^6, which %v prints in plain digits.  *)
(***************************************************************************)
JNum(n) == [t |-> "number", v |-> n]
JStr(s) == [t |-> "string", v |-> s]
JBool(b) == [t |-> "bool", v |-> b]
JNull == [t |-> "null", v |-> "null"]
JArr == [t |-> "array", v |-> "[]"]

\* result[col]: the value of a key the row lacks is nil, like a JSON null.
Lookup(row, col) == IF col \in DOMAIN row THEN row[col] ELSE JNull

\* fmt.Sprintf("%v", val) for a value that is no string.
SprintfV(val) ==
    CASE val.t = "null" -> "<nil>"
      [] val.t = "number" -> ToString(val.v)
      [] val.t = "bool" -> (IF val.v THEN "true" ELSE "false")
      [] val.t = "array" -> "[]"
      [] OTHER -> val.v

(***************************************************************************)
(* convertToDataFrames: the classification of a column from the first      *)
(* row's value, and the coercion of a cell to its column's type.           *)
(***************************************************************************)
\* The detection mutated to take a bool for a float64 column.
DetectTypeBoolAsFloat(valueType) ==
    IF valueType.t = "string" /\ ParseOcient(valueType.v).ok THEN "timestamp"
    ELSE IF valueType.t = "string" /\ ParseRFC3339(valueType.v).ok
         THEN "timestamp"
    ELSE IF valueType.t = "string" /\ ParseDateTime(valueType.v).ok
         THEN "timestamp"
    ELSE CASE valueType.t = "number" -> "float64"
           [] valueType.t = "string" -> "string"
           [] valueType.t = "bool" -> "float64"
           [] OTHER -> "string"

\* columnTypes[col] as the classification loop sets it.
DetectType(valueType) ==
    IF valueType.t = "string" /\ ParseOcient(valueType.v).ok THEN "timestamp"
    ELSE IF valueType.t = "string" /\ ParseRFC3339(valueType.v).ok
         THEN "timestamp"
    ELSE IF valueType.t = "string" /\ ParseDateTime(valueType.v).ok
         THEN "timestamp"
    ELSE CASE valueType.t = "number" -> "float64"
           [] valueType.t = "string" -> "string"
           [] valueType.t = "bool" -> "bool"
           [] OTHER -> "string"

\* The timestamp coercion mutated to try the bare layout first.
CoerceTimestampBareFirst(val) ==
    IF val.t = "string"
    THEN IF ParseDateTime(val.v).ok
         THEN [t |-> ParseDateTime(val.v).t, by |-> "datetime"]
         ELSE IF ParseOcient(val.v).ok
         THEN [t |-> ParseOcient(val.v).t, by |-> "ocient"]
         ELSE IF ParseRFC3339(val.v).ok
         THEN [t |-> ParseRFC3339(val.v).t, by |-> "rfc3339"]
         ELSE [t |-> ZeroTime, by |-> "zero"]
    ELSE [t |-> ZeroTime, by |-> "zero"]

\* The timestamp coercion mutated to lack the RFC3339 branch.
CoerceTimestampNoRFC3339(val) ==
    IF val.t = "string"
    THEN IF ParseOcient(val.v).ok
         THEN [t |-> ParseOcient(val.v).t, by |-> "ocient"]
         ELSE IF ParseDateTime(val.v).ok
         THEN [t |-> ParseDateTime(val.v).t, by |-> "datetime"]
         ELSE [t |-> ZeroTime, by |-> "zero"]
    ELSE [t |-> ZeroTime, by |-> "zero"]

\* The "timestamp" case of the fill loop: the time appended, and the branch
\* that appended it ("zero": one of the two time.Time{} fallbacks).
CoerceTimestamp(val) ==
    IF val.t = "string"
    THEN IF ParseOcient(val.v).ok
         THEN [t |-> ParseOcient(val.v).t, by |-> "ocient"]
         ELSE IF ParseRFC3339(val.v).ok
         THEN [t |-> ParseRFC3339(val.v).t, by |-> "rfc3339"]
         ELSE IF ParseDateTime(val.v).ok
         THEN [t |-> ParseDateTime(val.v).t, by |-> "datetime"]
         ELSE [t |-> ZeroTime, by |-> "zero"]
    ELSE [t |-> ZeroTime, by |-> "zero"]

\* The fill loop mutated to skip a cell that does not match its column's type.
FillCellSkipMismatch(values, type, val) ==
    CASE type = "float64" ->
           IF val.t = "number" THEN Append(values, val.v) ELSE values
      [] type = "string" ->
           IF val.t = "string" THEN Append(values, val.v) ELSE values
      [] type = "bool" ->
           IF val.t = "bool" THEN Append(values, val.v) ELSE values
      [] type = "timestamp" ->
           IF CoerceTimestamp(val).by # "zero"
           THEN Append(values, CoerceTimestamp(val).t) ELSE values

\* The fill loop mutated to put "" for a mismatched Text cell.
FillCellTextEmpty(values, type, val) ==
    CASE type = "float64" ->
           IF val.t = "number" THEN Append(values, val.v)
           ELSE Append(values, 0)
      [] type = "string" ->
           IF val.t = "string" THEN Append(values, val.v)
           ELSE Append(values, "")
      [] type = "bool" ->
           IF val.t = "bool" THEN Append(values, val.v)
           ELSE Append(values, FALSE)
      [] type = "timestamp" -> Append(values, CoerceTimestamp(val).t)

\* The fill loop mutated to put true for a mismatched Boolean cell.
FillCellBoolTrue(values, type, val) ==
    CASE type = "float64" ->
           IF val.t = "number" THEN Append(values, val.v)
           ELSE Append(values, 0)
      [] type = "string" ->
           IF val.t = "string" THEN Append(values, val.v)
           ELSE Append(values, SprintfV(val))
      [] type = "bool" ->
           IF val.t = "bool" THEN Append(values, val.v)
           ELSE Append(values, TRUE)
      [] type = "timestamp" -> Append(values, CoerceTimestamp(val).t)

\* columnValues[col] after one cell of the fill loop.
FillCell(values, type, val) ==
    CASE type = "float64" ->
           IF val.t = "number" THEN Append(values, val.v)
           ELSE Append(values, 0)
      [] type = "string" ->
           IF val.t = "string" THEN Append(values, val.v)
           ELSE Append(values, SprintfV(val))
      [] type = "bool" ->
           IF val.t = "bool" THEN Append(values, val.v)
           ELSE Append(values, FALSE)
      [] type = "timestamp" -> Append(values, CoerceTimestamp(val).t)

\* The branch of the fill loop that appended the cell.
FillBranch(type, val) ==
    IF type = "timestamp" THEN CoerceTimestamp(val).by
    ELSE IF (type = "float64" /\ val.t = "number")
            \/ (type = "string" /\ val.t = "string")
            \/ (type = "bool" /\ val.t = "bool")
         THEN "value" ELSE "fallback"

(***************************************************************************)
(* The conversion as a function of the rows and the chosen column order    *)
(* (the order of `for k := range results[0]` is Go's map iteration order). *)
(***************************************************************************)
\* What the fill loop appends to columnValues[col] for rows lo..hi, in row
\* order.  Each cell appends to the end of the list whatever the list holds,
\* so the rows are split in halves (which keeps the evaluation shallow).
RECURSIVE FillRows(_, _, _, _, _)
FillRows(results, col, type, lo, hi) ==
    IF lo > hi THEN <<>>
    ELSE IF lo = hi THEN FillCell(<<>>, type, Lookup(results[lo], col))
    ELSE LET mid == (lo + hi) \div 2
         IN  FillRows(results, col, type, lo, mid)
                 \o FillRows(results, col, type, mid + 1, hi)

\* columnValues[col] after the fill loop.
FillColumn(results, col, type) == FillRows(results, col, type, 1, Len(results))

\* data.NewField(col, nil, values)
NewField(col, type, values) == [name |-> col, type |-> type, values |-> values]

\* data.NewFrame("response") with the given fields.
NewFrame(fields) == [name |-> "response", fields |-> fields]

\* The orders `for k := range results[0]` may produce.
ColumnOrders(row) ==
    {f \in [1..Cardinality(DOMAIN row) -> DOMAIN row] :
        \A i, j \in DOMAIN f : i # j => f[i] # f[j]}

\* convertToDataFrames(results) when the range loop yields `cols`.
ConvertOrdered(results, cols) ==
    IF Len(results) = 0 THEN NewFrame(<<>>)
    ELSE NewFrame([i \in 1..Len(cols) |->
            NewField(cols[i], DetectType(results[1][cols[i]]),
                     FillColumn(results, cols[i],
                                DetectType(results[1][cols[i]])))])

(***************************************************************************)
(* executeQuery and query.                                                 *)
(***************************************************************************)
\* An OcientStatus.
Status(reason, state, code) ==
    [reason |-> reason, sql_state |-> state, vendor_code |-> code]

StatusOK == Status("", "00000", 0)
StatusSyntax == Status("syntax error", "42601", 7)
\* The zero OcientStatus, decoded from a body without a "status" member.
StatusZero == Status("", "", 0)

\* What becomes of the POST: the request cannot be created (no request is
\* made), the transport fails, the body cannot be read, the body is no JSON,
\* or the body decodes to a CollectionResponse (data: the rows, <<>> for a
\* null or missing "data").
NoRequest == [kind |-> "norequest", status |-> StatusZero, data |-> <<>>]
NoRead == [kind |-> "noread", status |-> StatusZero, data |-> <<>>]
Transport == [kind |-> "transport", status |-> StatusZero, data |-> <<>>]
BadBody == [kind |-> "badbody", status |-> StatusZero, data |-> <<>>]
Response(status, data) == [kind |-> "response", status |-> status, data |-> data]

\* fmt.Errorf("query error: %s (SQL state: %s, vendor code: %d)", ...)
QueryErrorText(st) ==
    "query error: " \o st.reason \o " (SQL state: " \o st.sql_state
        \o ", vendor code: " \o ToString(st.vendor_code) \o ")"

\* executeQuery mutated to hand back the rows of an error response.
ExecuteQueryKeepRows(reply) ==
    CASE reply.kind = "norequest" ->
           [results |-> <<>>, status |-> <<>>, err |-> "error creating request"]
      [] reply.kind = "transport" ->
           [results |-> <<>>, status |-> <<>>, err |-> "error executing query"]
      [] reply.kind = "noread" ->
           [results |-> <<>>, status |-> <<>>, err |-> "error reading response"]
      [] reply.kind = "badbody" ->
           [results |-> <<>>, status |-> <<>>, err |-> "error parsing response"]
      [] OTHER ->
           [results |-> reply.data, status |-> <<reply.status>>,
            err |-> IF reply.status.sql_state # "00000"
                    THEN QueryErrorText(reply.status) ELSE "nil"]

\* executeQuery's three results for a reply of the remote: the rows, the
\* status (<<>>: a nil pointer) and the error ("nil": none).
ExecuteQuery(reply) ==
    CASE reply.kind = "norequest" ->
           [results |-> <<>>, status |-> <<>>, err |-> "error creating request"]
      [] reply.kind = "transport" ->
           [results |-> <<>>, status |-> <<>>, err |-> "error executing query"]
      [] reply.kind = "noread" ->
           [results |-> <<>>, status |-> <<>>, err |-> "error reading response"]
      [] reply.kind = "badbody" ->
           [results |-> <<>>, status |-> <<>>, err |-> "error parsing response"]
      [] reply.status.sql_state # "00000" ->
           [results |-> <<>>, status |-> <<reply.status>>,
            err |-> QueryErrorText(reply.status)]
      [] OTHER ->
           [results |-> reply.data, status |-> <<reply.status>>, err |-> "nil"]

\* executeQuery mutated to try a failed client.Do once more.
AttemptsRetry(reply) ==
    IF reply.kind = "norequest" THEN 0
    ELSE IF reply.kind = "transport" THEN 2 ELSE 1

\* The calls of client.Do one executeQuery call makes: one, unless the
\* request could not be created.
Attempts(reply) == IF reply.kind = "norequest" THEN 0 ELSE 1

\* backend.ErrDataResponse(status, message)
ErrDataResponse(status, message) ==
    [Error |-> message, Status |-> status, Frames |-> <<>>]

\* A backend.DataResponse without error holding the frames.
DataResponse(frames) == [Error |-> "", Status |-> "", Frames |-> frames]

\* query mutated to ignore the status executeQuery returned.
QueryFailedNoStatus(ex) ==
    ErrDataResponse("Internal", "query execution error: " \o ex.err)

\* query's error response when executeQuery returned an error.
QueryFailed(ex) ==
    IF ex.status # <<>>
    THEN ErrDataResponse("Internal",
            "Query failed: " \o ex.status[1].reason \o " (SQL state: "
                \o ex.status[1].sql_state \o ", vendor code: "
                \o ToString(ex.status[1].vendor_code) \o ")")
    ELSE ErrDataResponse("Internal", "query execution error: " \o ex.err)

\* query's whole result for a reply of the remote, for a caller that sees
\* only the response (cols: the column order of the conversion).
QueryResponse(reply, cols) ==
    LET ex == ExecuteQuery(reply)
    IN  IF ex.err # "nil" THEN QueryFailed(ex)
        ELSE DataResponse(<<ConvertOrdered(ex.results, cols)>>)

(***************************************************************************)
(* State.                                                                  *)
(***************************************************************************)
VARIABLES
    \* The backend, serving one DataQuery:
    query,          \* the DataQuery's JSON: whether it decodes, its queryText
    remote,         \* what the remote endpoint answers to the POST
    pc,             \* where query() is
    exec,           \* executeQuery's results, status and err
    columns,        \* convertToDataFrames: the column names, in loop order
    columnTypes,    \* column -> "float64" | "string" | "bool" | "timestamp"
    columnValues,   \* column -> the values appended so far
    parsedBy,       \* column -> for each value, the branch that appended it
    row,            \* the fill loop's next row
    response,       \* the backend.DataResponse query() returns
    requests,       \* the requests executeQuery made to the remote endpoint
    earlier,        \* the response to the same query served before, if any
    \* The frontend, serving one browsing request:
    caller,         \* "direct", or "editor" (loadDistinctValues)
    args,           \* schema, table, column and options of the call
    ndistinct,      \* the column's number of distinct non-null values
    bpc,            \* where the browsing request is
    sub,            \* how each sub-query ended ("none": not issued)
    totalCount,     \* getDistinctColumnValues' totalCount
    ret,            \* the settled promise of getDistinctColumnValues
    ed,             \* the query editor's state
    \* The query editor's builder and value browser:
    builder,        \* schema, table, selectedColumns, whereClauses, time column
    built,          \* the queryText buildQuery handed to onChange
    pending,        \* the modal's distinct-value requests in flight (a bag)
    \* The frontend's applyTemplateVariables and the backend's QueryData:
    macro,          \* the query, the dashboard range and the query sent
    batch           \* the request's queries, QueryData's position and response

backendVars == <<query, remote, pc, exec, columns, columnTypes, columnValues,
                 parsedBy, row, response, requests, earlier>>
browseVars == <<caller, args, ndistinct, bpc, sub, totalCount, ret, ed>>
hostVars == <<macro, batch>>
editorVars == <<builder, built, pending, macro, batch>>
vars == <<query, remote, pc, exec, columns, columnTypes, columnValues,
          parsedBy, row, response, requests, earlier,
          caller, args, ndistinct, bpc, sub, totalCount, ret, ed,
          builder, built, pending, macro, batch>>

(***************************************************************************)
(* Inputs of the backend.                                                  *)
(***************************************************************************)
Keys == {"a", "b"}

\* The cells of column "a": every dynamic type, strings in each timestamp
\* layout, a string that is no timestamp.
CellsA ==
    {JNum(42), JStr("2024-01-15 10:30:00.123456789"),
     JStr("2024-01-15T10:30:00Z"), JStr("abc"), JBool(TRUE), JNull, JArr}
CellsB == {JNum(7), JStr("x")}

\* A row: a mapping from some of the keys to cells.
Rows ==
    UNION {{r \in [S -> CellsA \cup CellsB] :
               /\ "a" \in S => r["a"] \in CellsA
               /\ "b" \in S => r["b"] \in CellsB} : S \in SUBSET Keys}

RowSets == UNION {[1..n -> Rows] : n \in 0..MaxRows}

Remotes ==
    {NoRequest, Transport, NoRead, BadBody, Response(StatusZero, <<>>)}
        \cup {Response(st, d) : st \in {StatusOK, StatusSyntax}, d \in RowSets}

BadJSON == [json |-> "bad", queryText |-> ""]
EmptyText == [json |-> "ok", queryText |-> ""]
GoodQuery == [json |-> "ok", queryText |-> "SELECT 1"]

\* Strings around the timestamp layouts: a valid and an invalid date, both
\* separators, one- and two-digit hours, fractions of 0, 1, 9 and 10 digits,
\* no zone, Z and a numeric zone.
TsStrings ==
    {d \o p \o t \o f \o z :
        d \in {"2024-01-15", "2024-02-30"}, p \in {" ", "T"},
        t \in {"10:30:00", "9:30:00"},
        f \in {"", ".5", ".123456789", ".1234567891"},
        z \in {"", "Z", "+05:30"}}
      \cup {"abc", "", "0001-01-01 00:00:00"}

TsCells == {JStr(s) : s \in TsStrings} \cup {JNum(42), JNull}

\* One column; a first row and at most one later row.
TsRowSets ==
    {<<[k \in {"a"} |-> c]>> : c \in TsCells}
      \cup {<<[k \in {"a"} |-> c], [k \in {"a"} |-> d]>> :
               c \in TsCells, d \in TsCells}

TsRemotes ==
    {NoRequest, Transport, NoRead, BadBody, Response(StatusSyntax, <<>>),
     Response(StatusOK, <<>>)}
        \cup {Response(StatusOK, d) : d \in TsRowSets}

NoExec == [results |-> <<>>, status |-> <<>>, err |-> "nil"]

\* No response yet.
NoResponse == [Error |-> "", Status |-> "none", Frames |-> <<>>]

\* filterQuery mutated to let every query pass.
FilterQueryAll(q) == TRUE

\* filterQuery: !!query.queryText (an absent queryText decodes to "" too).
FilterQuery(q) == q.queryText # ""

BackendStart(remotes) ==
    /\ \/ query \in {BadJSON, EmptyText} /\ remote = Transport
       \/ query = GoodQuery /\ remote \in remotes
    /\ \/ pc = "panel" /\ query.json = "ok"
       \/ pc = "query"
    /\ requests = 0
    /\ earlier = NoResponse
    /\ exec = NoExec
    /\ columns = <<>>
    /\ columnTypes = <<>>
    /\ columnValues = <<>>
    /\ parsedBy = <<>>
    /\ row = 0
    /\ response = DataResponse(<<>>)

(***************************************************************************)
(* The backend's steps.                                                    *)
(***************************************************************************)
\* The panel's query passes filterQuery and is sent to the backend, or is
\* excluded from execution.
PanelFilter ==
    /\ pc = "panel"
    /\ pc' = IF FilterQuery(query) THEN "query" ELSE "excluded"
    /\ UNCHANGED <<query, remote, exec, columns, columnTypes, columnValues,
                   parsedBy, row, response, requests, earlier>>
    /\ UNCHANGED browseVars
    /\ UNCHANGED editorVars

\* query: the JSON does not decode, or the query text is empty.
QueryReject ==
    /\ pc = "query"
    /\ query.json = "bad" \/ query.queryText = ""
    /\ response' = IF query.json = "bad"
                   THEN ErrDataResponse("BadRequest", "json unmarshal: error")
                   ELSE ErrDataResponse("BadRequest", "query text is empty")
    /\ pc' = "done"
    /\ UNCHANGED <<query, remote, exec, columns, columnTypes, columnValues,
                   parsedBy, row>>
    /\ UNCHANGED <<requests, earlier>>
    /\ UNCHANGED browseVars
    /\ UNCHANGED editorVars

\* query: results, status, err := d.executeQuery(ctx, qm.QueryText)
CallExecuteQuery ==
    /\ pc = "query"
    /\ query.json = "ok" /\ query.queryText # ""
    /\ exec' = ExecuteQuery(remote)
    /\ requests' = Attempts(remote)
    /\ pc' = "executed"
    /\ UNCHANGED <<query, remote, columns, columnTypes, columnValues,
                   parsedBy, row, response>>
    /\ UNCHANGED earlier
    /\ UNCHANGED browseVars
    /\ UNCHANGED editorVars

\* query: err != nil
QueryError ==
    /\ pc = "executed"
    /\ exec.err # "nil"
    /\ response' = QueryFailed(exec)
    /\ pc' = "done"
    /\ UNCHANGED <<query, remote, exec, columns, columnTypes, columnValues,
                   parsedBy, row>>
    /\ UNCHANGED <<requests, earlier>>
    /\ UNCHANGED browseVars
    /\ UNCHANGED editorVars

\* convertToDataFrames mutated to return no frame for an empty RowSet.
ConvertEmptyNoFrame ==
    /\ pc = "executed"
    /\ exec.err = "nil"
    /\ Len(exec.results) = 0
    /\ response' = DataResponse(<<>>)
    /\ pc' = "done"
    /\ UNCHANGED <<query, remote, exec, columns, columnTypes, columnValues,
                   parsedBy, row>>
    /\ UNCHANGED <<requests, earlier>>
    /\ UNCHANGED browseVars
    /\ UNCHANGED editorVars

\* convertToDataFrames: len(results) == 0, and query returns the frame.
ConvertEmpty ==
    /\ pc = "executed"
    /\ exec.err = "nil"
    /\ Len(exec.results) = 0
    /\ response' = DataResponse(<<NewFrame(<<>>)>>)
    /\ pc' = "done"
    /\ UNCHANGED <<query, remote, exec, columns, columnTypes, columnValues,
                   parsedBy, row>>
    /\ UNCHANGED <<requests, earlier>>
    /\ UNCHANGED browseVars
    /\ UNCHANGED editorVars

\* convertToDataFrames: the column names of the first row, in the order the
\* range loop yields them, and each column's type and empty value list.
ConvertColumns ==
    /\ pc = "executed"
    /\ exec.err = "nil"
    /\ Len(exec.results) > 0
    /\ \E cols \in ColumnOrders(exec.results[1]) : columns' = cols
    /\ columnTypes' = [c \in DOMAIN exec.results[1] |->
                          DetectType(exec.results[1][c])]
    /\ columnValues' = [c \in DOMAIN exec.results[1] |-> <<>>]
    /\ parsedBy' = [c \in DOMAIN exec.results[1] |-> <<>>]
    /\ row' = 1
    /\ pc' = "fill"
    /\ UNCHANGED <<query, remote, exec, response>>
    /\ UNCHANGED <<requests, earlier>>
    /\ UNCHANGED browseVars
    /\ UNCHANGED editorVars

\* convertToDataFrames: one row of the fill loop.
FillRow ==
    /\ pc = "fill"
    /\ row <= Len(exec.results)
    /\ columnValues' = [c \in DOMAIN columnValues |->
                           FillCell(columnValues[c], columnTypes[c],
                                    Lookup(exec.results[row], c))]
    /\ parsedBy' = [c \in DOMAIN parsedBy |->
                       Append(parsedBy[c],
                              FillBranch(columnTypes[c],
                                         Lookup(exec.results[row], c)))]
    /\ row' = row + 1
    /\ UNCHANGED <<query, remote, pc, exec, columns, columnTypes, response>>
    /\ UNCHANGED <<requests, earlier>>
    /\ UNCHANGED browseVars
    /\ UNCHANGED editorVars

\* convertToDataFrames: the fields are added to the frame in column order,
\* and query returns the frame.
AssembleFrame ==
    /\ pc = "fill"
    /\ row > Len(exec.results)
    /\ response' = DataResponse(<<NewFrame([i \in 1..Len(columns) |->
                        NewField(columns[i], columnTypes[columns[i]],
                                 columnValues[columns[i]])])>>)
    /\ pc' = "done"
    /\ UNCHANGED <<query, remote, exec, columns, columnTypes, columnValues,
                   parsedBy, row>>
    /\ UNCHANGED <<requests, earlier>>
    /\ UNCHANGED browseVars
    /\ UNCHANGED editorVars

\* The same query is served again (a refresh) and the remote answers as
\* before: query() starts anew.
Refresh ==
    /\ pc = "done"
    /\ earlier' = response
    /\ pc' = "query"
    /\ exec' = NoExec
    /\ columns' = <<>>
    /\ columnTypes' = <<>>
    /\ columnValues' = <<>>
    /\ parsedBy' = <<>>
    /\ row' = 0
    /\ response' = DataResponse(<<>>)
    /\ requests' = 0
    /\ UNCHANGED <<query, remote>>
    /\ UNCHANGED browseVars
    /\ UNCHANGED editorVars

BackendNext ==
    \/ PanelFilter
    \/ QueryReject
    \/ CallExecuteQuery
    \/ QueryError
    \/ ConvertEmpty
    \/ ConvertColumns
    \/ FillRow
    \/ AssembleFrame
    \/ Refresh

(***************************************************************************)
(* The frontend: getDistinctValueCount and getDistinctColumnValues.        *)
(* The browsed column of the model holds the numbers 1..n, so its values   *)
(* and the search patterns are digit strings, which LOWER leaves alone.    *)
(***************************************************************************)
Min(a, b) == IF a < b THEN a ELSE b
Max(a, b) == IF a > b THEN a ELSE b

\* sub occurs in s (LIKE '%sub%').
Contains(s, t) ==
    \E i \in 1..(Len(s) - Len(t) + 1) : SubSeq(s, i, i + Len(t) - 1) = t

\* options?.limit || 100: an absent limit and a limit of 0 give the default.
OptLimit(options) ==
    IF "limit" \in DOMAIN options /\ options.limit # 0
    THEN options.limit ELSE DefaultLimit

\* options?.offset || 0
OptOffset(options) ==
    IF "offset" \in DOMAIN options THEN options.offset ELSE 0

\* options?.searchPattern || ''
OptSearch(options) ==
    IF "searchPattern" \in DOMAIN options THEN options.searchPattern ELSE ""

\* The remote's rows for SELECT COUNT(DISTINCT column) AS value_count
\* FROM schema.table WHERE column IS NOT NULL.
CountRows(n) == <<[k \in {"value_count"} |-> JNum(n)]>>

\* The same row with the count sent as a JSON string.
TextCountRows(n) == <<[k \in {"value_count"} |-> JStr(ToString(n))]>>

\* The columns' contents differ: column "d" holds 1001..1000+n.
ColumnBase(column) == IF column = "d" THEN 1000 ELSE 0

\* The remote's rows for SELECT DISTINCT column ... WHERE column IS NOT NULL
\* [AND LOWER(CAST(column AS VARCHAR)) LIKE LOWER('%pattern%')]
\* ORDER BY column ASC LIMIT limit OFFSET offset.
ValueRows(n, column, limit, offset, pattern) ==
    LET all == [i \in 1..n |-> ColumnBase(column) + i]
        matching == IF pattern = "" THEN all
                    ELSE SelectSeq(all, LAMBDA v : Contains(ToString(v), pattern))
        page == SubSeq(matching, offset + 1, Min(Len(matching), offset + limit))
    IN  [i \in 1..Len(page) |-> [k \in {column} |-> JNum(page[i])]]

\* The failures of a sub-query at the remote.
FailedReplies == {Transport, Response(StatusSyntax, <<>>)}

\* The only column order of rows with at most one key.
OnlyOrder(results) ==
    IF Len(results) = 0 THEN <<>>
    ELSE CHOOSE f \in ColumnOrders(results[1]) : TRUE

\* What firstValueFrom(this.query(...)) settles to for a response of the
\* backend: its frames; for an error response the host's runtime either
\* rejects the promise or resolves it without data (delivery).
Deliver(resp, delivery) ==
    IF resp.Error # ""
    THEN IF delivery = "reject"
         THEN [kind |-> "rejected", data |-> <<>>]
         ELSE [kind |-> "resolved", data |-> <<>>]
    ELSE [kind |-> "resolved", data |-> resp.Frames]

\* firstValueFrom(this.query(...)) for a reply of the remote.
Fetch(reply, delivery) ==
    Deliver(QueryResponse(reply, OnlyOrder(reply.data)), delivery)

\* How a sub-query ended, for the record.
Outcome(reply, fetch) ==
    IF reply \in FailedReplies
    THEN IF fetch.kind = "rejected" THEN "rejected" ELSE "nodata"
    ELSE IF \E n \in 0..MaxDistinct : reply.data = TextCountRows(n)
    THEN "nonnumeric" ELSE "ok"

\* String(value) of a field's value.
JSString(type, v) ==
    CASE type = "float64" -> ToString(v)
      [] type = "bool" -> (IF v THEN "true" ELSE "false")
      [] OTHER -> v

\* getDistinctValueCount mutated to report a failure as -1.
GetDistinctValueCountSentinel(fetch) ==
    IF fetch.kind = "rejected" THEN -1
    ELSE IF Len(fetch.data) > 0 /\ Len(fetch.data[1].fields) > 0
         THEN IF fetch.data[1].fields[1].type = "float64"
                 /\ Len(fetch.data[1].fields[1].values) > 0
              THEN fetch.data[1].fields[1].values[1] ELSE -1
         ELSE -1

\* getDistinctValueCount's result for the fetch of its query.
GetDistinctValueCount(fetch) ==
    IF fetch.kind = "rejected" THEN 0
    ELSE IF Len(fetch.data) > 0 /\ Len(fetch.data[1].fields) > 0
         THEN LET f == fetch.data[1].fields[1]
              IN  IF f.type = "float64" /\ Len(f.values) > 0
                  THEN f.values[1] ELSE 0
         ELSE 0

\* The page mutated to compute hasMore without the offset.
DistinctPageNoOffset(fetch, total, offset) ==
    IF fetch.kind = "resolved" /\ Len(fetch.data) > 0
       /\ Len(fetch.data[1].fields) > 0
    THEN LET f == fetch.data[1].fields[1]
             values == [i \in 1..Len(f.values) |-> JSString(f.type, f.values[i])]
         IN  [values |-> values, totalCount |-> total,
              hasMore |-> Len(values) < total]
    ELSE [values |-> <<>>, totalCount |-> total, hasMore |-> FALSE]

\* The result mutated to count the values of the page returned.
DistinctPageFilteredTotal(fetch, total, offset) ==
    IF fetch.kind = "resolved" /\ Len(fetch.data) > 0
       /\ Len(fetch.data[1].fields) > 0
    THEN LET f == fetch.data[1].fields[1]
             values == [i \in 1..Len(f.values) |-> JSString(f.type, f.values[i])]
         IN  [values |-> values, totalCount |-> offset + Len(values),
              hasMore |-> offset + Len(values) < total]
    ELSE [values |-> <<>>, totalCount |-> offset, hasMore |-> FALSE]

\* getDistinctColumnValues' result for the fetch of its value query.
DistinctPage(fetch, total, offset) ==
    IF fetch.kind = "resolved" /\ Len(fetch.data) > 0
       /\ Len(fetch.data[1].fields) > 0
    THEN LET f == fetch.data[1].fields[1]
             values == [i \in 1..Len(f.values) |-> JSString(f.type, f.values[i])]
         IN  [values |-> values, totalCount |-> total,
              hasMore |-> offset + Len(values) < total]
    ELSE [values |-> <<>>, totalCount |-> total, hasMore |-> FALSE]

EmptyPage == [values |-> <<>>, totalCount |-> 0, hasMore |-> FALSE]

\* !schema || !table || !column
MissingName(a) == a.schema = "" \/ a.table = "" \/ a.column = ""

(***************************************************************************)
(* The query editor's state (null error: "").                              *)
(***************************************************************************)
EditorInit ==
    [error |-> "", isValuesModalOpen |-> FALSE,
     loadingDistinctValues |-> FALSE, distinctValues |-> <<>>,
     totalValueCount |-> 0, selectedValue |-> "",
     currentWhereClauseIndex |-> -1, searchFilter |-> "",
     currentPage |-> 0, hasMoreValues |-> FALSE]

\* resetDistinctValuesState
ResetDistinctValuesState(e) ==
    [e EXCEPT !.distinctValues = <<>>, !.selectedValue = "",
              !.searchFilter = "", !.currentPage = 0,
              !.totalValueCount = 0, !.hasMoreValues = FALSE]

\* setError(`Failed to load values for column "${clause.column}".`)
LoadErrorText(column) ==
    "Failed to load values for column \"" \o column \o "\"."

(***************************************************************************)
(* Inputs of the frontend.                                                 *)
(***************************************************************************)
Names ==
    {[schema |-> "s", table |-> "t", column |-> "c"],
     [schema |-> "", table |-> "t", column |-> "c"],
     [schema |-> "s", table |-> "", column |-> "c"],
     [schema |-> "s", table |-> "t", column |-> ""]}

Limits == {0, 1, 2, 50, 100}
Offsets == {0, 1, 2, 3, 50, 100, 150, 200}
Patterns == {"", "5", "15"}

\* The options of a call: each member may be absent.
OptionSets ==
    {[limit |-> l, offset |-> o, searchPattern |-> p] :
        l \in Limits, o \in Offsets, p \in Patterns}
      \cup {[limit |-> l, offset |-> o] : l \in Limits, o \in Offsets}
      \cup {[offset |-> o] : o \in Offsets}
      \cup {[limit |-> l] : l \in Limits}
      \cup {<<>>}

DistinctCounts ==
    (0..SmallDistinct)
      \cup {PAGE_SIZE - 1, PAGE_SIZE, PAGE_SIZE + 1, MaxDistinct}

\* The sub-queries of the calls so far: the outcomes of the current call's
\* two, the refIds handed to this.query in order, and the number of calls
\* that got past the check of their arguments.
NoSub == [count |-> "none", values |-> "none", issued |-> <<>>, calls |-> 0]

\* this.query mutated to answer a refId it has seen from a cache.
IssueQueryCached(s, refId) ==
    IF \E i \in 1..Len(s.issued) : s.issued[i] = refId
    THEN s ELSE [s EXCEPT !.issued = Append(@, refId)]

\* this.query({targets: [query]}): a request goes out.
IssueQuery(s, refId) == [s EXCEPT !.issued = Append(@, refId)]

(***************************************************************************)
(* The frontend's steps.                                                   *)
(***************************************************************************)
\* A direct call of getDistinctColumnValues, up to its first await.
CallDirect ==
    /\ bpc = "idle"
    /\ caller = "direct"
    /\ IF MissingName(args)
       THEN /\ ret' = [kind |-> "resolved", page |-> EmptyPage]
            /\ bpc' = "returned"
            /\ sub' = sub
       ELSE /\ ret' = ret
            /\ bpc' = "count"
            /\ sub' = [sub EXCEPT !.calls = @ + 1]
    /\ UNCHANGED <<caller, args, ndistinct, totalCount, ed>>
    /\ UNCHANGED backendVars
    /\ UNCHANGED editorVars

\* loadDistinctValues(index), up to the first await of the call it makes.
LoadDistinctValues ==
    /\ bpc = "idle"
    /\ caller = "editor"
    /\ IF MissingName(args)
       THEN /\ ed' = ed
            /\ bpc' = "done"
            /\ sub' = sub
       ELSE /\ ed' = [ResetDistinctValuesState(ed) EXCEPT
                         !.currentWhereClauseIndex = 0,
                         !.isValuesModalOpen = TRUE,
                         !.loadingDistinctValues = TRUE]
            /\ bpc' = "count"
            /\ sub' = [sub EXCEPT !.calls = @ + 1]
    /\ UNCHANGED <<caller, args, ndistinct, totalCount, ret>>
    /\ UNCHANGED backendVars
    /\ UNCHANGED editorVars

\* const totalCount = await this.getDistinctValueCount(schema, table, column)
CountQuery ==
    /\ bpc = "count"
    /\ \E reply \in {Response(StatusOK, CountRows(ndistinct)),
                      Response(StatusOK, TextCountRows(ndistinct))}
                      \cup FailedReplies,
          delivery \in {"reject", "resolve"} :
          \E f \in {Fetch(reply, delivery)} :
              /\ totalCount' = GetDistinctValueCount(f)
              /\ sub' = [IssueQuery(sub, "distinct_count") EXCEPT
                            !.count = Outcome(reply, f)]
    /\ bpc' = "values"
    /\ UNCHANGED <<caller, args, ndistinct, ret, ed>>
    /\ UNCHANGED backendVars
    /\ UNCHANGED editorVars

\* The value query, and getDistinctColumnValues' return.
ValueQuery ==
    /\ bpc = "values"
    /\ \E reply \in {Response(StatusOK,
                        ValueRows(ndistinct, args.column,
                                  OptLimit(args.options),
                                  OptOffset(args.options),
                                  OptSearch(args.options)))}
                      \cup FailedReplies,
          delivery \in {"reject", "resolve"} :
          \E f \in {Fetch(reply, delivery)} :
              /\ ret' = [kind |-> "resolved",
                         page |-> DistinctPage(f, totalCount,
                                               OptOffset(args.options))]
              /\ sub' = [IssueQuery(sub, "distinct_values") EXCEPT
                            !.values = Outcome(reply, f)]
    /\ bpc' = "returned"
    /\ UNCHANGED <<caller, args, ndistinct, totalCount, ed>>
    /\ UNCHANGED backendVars
    /\ UNCHANGED editorVars

\* The caller goes on: loadDistinctValues' try, catch and finally.
Resume ==
    /\ bpc = "returned"
    /\ ed' = IF caller # "editor" THEN ed
             ELSE IF ret.kind = "rejected"
             THEN [ed EXCEPT !.error = LoadErrorText(args.column),
                             !.loadingDistinctValues = FALSE]
             ELSE [ed EXCEPT !.distinctValues = ret.page.values,
                             !.totalValueCount = ret.page.totalCount,
                             !.hasMoreValues = ret.page.hasMore,
                             !.loadingDistinctValues = FALSE]
    /\ bpc' = "done"
    /\ UNCHANGED <<caller, args, ndistinct, sub, totalCount, ret>>
    /\ UNCHANGED backendVars
    /\ UNCHANGED editorVars

\* The inputs of repeated calls: the table's contents change in between.
CallOptions == {<<>>, [limit |-> 2, offset |-> 1], [searchPattern |-> "5"]}
CallCounts == {0, SmallDistinct + 2, PAGE_SIZE + 1}

\* The caller calls getDistinctColumnValues again, with its own arguments,
\* on the table as it is by then; the locals of the new invocation hold
\* nothing yet.
CallAgain ==
    /\ bpc = "returned"
    /\ caller = "direct"
    /\ sub.calls < MaxCalls
    /\ \E nm \in Names, o \in CallOptions :
          args' = [schema |-> nm.schema, table |-> nm.table,
                   column |-> nm.column, options |-> o]
    /\ ndistinct' \in CallCounts
    /\ sub' = [sub EXCEPT !.count = "none", !.values = "none"]
    /\ bpc' = "idle"
    /\ UNCHANGED <<caller, totalCount, ret, ed>>
    /\ UNCHANGED backendVars
    /\ UNCHANGED editorVars

BrowseNext ==
    \/ CallDirect
    \/ LoadDistinctValues
    \/ CountQuery
    \/ ValueQuery
    \/ Resume

(***************************************************************************)
(* The query editor's builder: buildQuery.                                 *)
(***************************************************************************)
\* Array.prototype.join(sep)
RECURSIVE Join(_, _)
Join(strs, sep) ==
    IF Len(strs) = 0 THEN ""
    ELSE IF Len(strs) = 1 THEN strs[1]
    ELSE strs[1] \o sep \o Join(Tail(strs), sep)

\* `${clause.column} ${clause.operator} '${clause.value}'`
ClauseText(clause) ==
    clause.column \o " " \o clause.operator \o " '" \o clause.value \o "'"

\* The time-range filter of the time-series column, with its ORDER BY.
TimeFilter(ts) ==
    ts \o " >= $__timeFrom() AND " \o ts \o " <= $__timeTo() ORDER BY "
       \o ts \o " ASC"

\* whereClauseStrings mutated to put the time filter first.
WhereClauseStringsTimeFirst(b) ==
    (IF b.timeseriesColumn # "" THEN <<TimeFilter(b.timeseriesColumn)>>
     ELSE <<>>)
      \o [i \in 1..Len(b.whereClauses) |-> ClauseText(b.whereClauses[i])]

\* whereClauseStrings: the clauses, then the time filter if a time-series
\* column is set (an undefined timeseriesColumn: "").
WhereClauseStrings(b) ==
    [i \in 1..Len(b.whereClauses) |-> ClauseText(b.whereClauses[i])]
      \o (IF b.timeseriesColumn # "" THEN <<TimeFilter(b.timeseriesColumn)>>
          ELSE <<>>)

\* The sql buildQuery hands to onChange when schema and table are set.
BuildQuery(b) ==
    "SELECT "
      \o (IF Len(b.selectedColumns) > 0
          THEN Join([i \in 1..Len(b.selectedColumns) |->
                        b.selectedColumns[i].name], ", ")
          ELSE "*")
      \o " FROM " \o b.schema \o "." \o b.table
      \o (IF Len(b.whereClauses) > 0 \/ b.timeseriesColumn # ""
          THEN " WHERE " \o Join(WhereClauseStrings(b), " AND ")
          ELSE "")

\* The sequences over S of at most n members.
SeqsUpTo(S, n) == UNION {[1..k -> S] : k \in 0..n}

\* Inputs of the builder.
SelectableColumns ==
    {[name |-> "x", isTimeseriesColumn |-> FALSE],
     [name |-> "y", isTimeseriesColumn |-> FALSE]}
Clauses ==
    {[column |-> "x", operator |-> "=", value |-> "5"],
     [column |-> "y", operator |-> ">", value |-> "7"]}
Builders ==
    [schema : {"s", ""}, table : {"t", ""},
     selectedColumns : SeqsUpTo(SelectableColumns, MaxSelected),
     whereClauses : SeqsUpTo(Clauses, MaxClauses),
     timeseriesColumn : {"", "ts"}]

NoBuilder ==
    [schema |-> "s", table |-> "t", selectedColumns |-> <<>>,
     whereClauses |-> <<>>, timeseriesColumn |-> ""]

\* buildQuery: onChange({...query, queryText: sql}) when schema and table
\* are set, nothing otherwise.
RunBuildQuery ==
    /\ built = "unset"
    /\ bpc = "build"
    /\ built' = IF builder.schema # "" /\ builder.table # ""
                THEN BuildQuery(builder) ELSE "unchanged"
    /\ UNCHANGED <<builder, pending>>
    /\ UNCHANGED hostVars
    /\ UNCHANGED backendVars
    /\ UNCHANGED browseVars

\* Neither applyTemplateVariables nor QueryData is in use.
NoMacro == [pc |-> "off"]
NoBatch == [pc |-> "off"]

HostIdle ==
    /\ macro = NoMacro
    /\ batch = NoBatch

EditorIdle ==
    /\ builder = NoBuilder
    /\ built = "unset"
    /\ pending = EmptyBag
    /\ HostIdle

(***************************************************************************)
(* The query editor's value browser (the modal): loadDistinctValues,       *)
(* navigatePage, handleSearchChange and the responses of their requests.   *)
(* query.schema is "s", query.table is "t".                                *)
(***************************************************************************)
\* The columns of whereClauses[0] and whereClauses[1].
WhereColumns == <<"c", "d">>

\* The getDistinctColumnValues calls of the three handlers, each with what
\* its continuation has captured (newPage, newSearchText).
LoadRequest(column) ==
    [kind |-> "load", column |-> column,
     options |-> [limit |-> PAGE_SIZE, offset |-> 0],
     newPage |-> 0, text |-> ""]
NavRequestOffsetPage(column, newPage, searchFilter) ==
    [kind |-> "nav", column |-> column,
     options |-> [limit |-> PAGE_SIZE, offset |-> newPage,
                  searchPattern |-> searchFilter],
     newPage |-> newPage, text |-> ""]
NavRequest(column, newPage, searchFilter) ==
    [kind |-> "nav", column |-> column,
     options |-> [limit |-> PAGE_SIZE, offset |-> newPage * PAGE_SIZE,
                  searchPattern |-> searchFilter],
     newPage |-> newPage, text |-> ""]
SearchRequest(column, newSearchText) ==
    [kind |-> "search", column |-> column,
     options |-> [limit |-> PAGE_SIZE, offset |-> 0,
                  searchPattern |-> newSearchText],
     newPage |-> 0, text |-> newSearchText]

\* navigatePage: newPage
NewPage(direction, currentPage) ==
    IF direction = "next" THEN currentPage + 1 ELSE Max(0, currentPage - 1)

\* The pagination controls: shown, and the buttons' disabled attributes.
PaginationShown(e) == e.totalValueCount > PAGE_SIZE
PrevEnabled(e) == ~(e.currentPage = 0 \/ e.loadingDistinctValues)
NextEnabledWhileLoading(e) == e.hasMoreValues
NextEnabled(e) == ~(~e.hasMoreValues \/ e.loadingDistinctValues)

\* loadDistinctValues mutated to keep the former session's search text,
\* page and selection.
OpenedKeepSearch(e, index) ==
    [e EXCEPT !.distinctValues = <<>>, !.totalValueCount = 0,
              !.hasMoreValues = FALSE,
              !.currentWhereClauseIndex = index,
              !.isValuesModalOpen = TRUE,
              !.loadingDistinctValues = TRUE]

\* loadDistinctValues, up to the call of getDistinctColumnValues.
Opened(e, index) ==
    [ResetDistinctValuesState(e) EXCEPT
        !.currentWhereClauseIndex = index,
        !.isValuesModalOpen = TRUE,
        !.loadingDistinctValues = TRUE]

\* handleSearchChange mutated to stay on the page.
SearchChangedKeepPage(e, newSearchText) ==
    [e EXCEPT !.searchFilter = newSearchText,
              !.loadingDistinctValues = TRUE]

\* handleSearchChange, up to the call of getDistinctColumnValues.
SearchChanged(e, newSearchText) ==
    [e EXCEPT !.searchFilter = newSearchText, !.currentPage = 0,
              !.loadingDistinctValues = TRUE]

\* The then-handlers of loadDistinctValues and navigatePage.
ThenLoad(e, result) ==
    [e EXCEPT !.distinctValues = result.values,
              !.totalValueCount = result.totalCount,
              !.hasMoreValues = result.hasMore]
ThenNav(e, result, newPage) ==
    [e EXCEPT !.distinctValues = result.values,
              !.totalValueCount = result.totalCount,
              !.hasMoreValues = result.hasMore,
              !.currentPage = newPage]

\* The search request's then-handler mutated to select the first value of
\* any non-empty result.
ThenSearchSelectFirst(e, result, newSearchText) ==
    [e EXCEPT !.distinctValues = result.values,
              !.totalValueCount = result.totalCount,
              !.hasMoreValues = result.hasMore,
              !.selectedValue =
                  IF Len(result.values) >= 1 /\ newSearchText # ""
                  THEN result.values[1] ELSE e.selectedValue]

\* handleSearchChange: then, with the auto-selection of a single match.
ThenSearch(e, result, newSearchText) ==
    [e EXCEPT !.distinctValues = result.values,
              !.totalValueCount = result.totalCount,
              !.hasMoreValues = result.hasMore,
              !.selectedValue =
                  IF Len(result.values) = 1 /\ newSearchText # ""
                  THEN result.values[1] ELSE e.selectedValue]

\* setError of the catch handlers.
RequestErrorText(req) ==
    IF req.kind = "load" THEN LoadErrorText(req.column)
    ELSE "Failed to load values for column " \o req.column

\* The editor's state after the promise of a request has settled: then or
\* catch, and finally.
Settled(e, req, settled) ==
    [(IF settled.kind = "rejected"
      THEN [e EXCEPT !.error = RequestErrorText(req)]
      ELSE IF req.kind = "load" THEN ThenLoad(e, settled.page)
      ELSE IF req.kind = "nav" THEN ThenNav(e, settled.page, req.newPage)
      ELSE ThenSearch(e, settled.page, req.text))
     EXCEPT !.loadingDistinctValues = FALSE]

\* What getDistinctColumnValues settles to for a request, given the replies
\* to its count query and its value query.
RequestSettles(req, countFetch, valuesFetch) ==
    [kind |-> "resolved",
     page |-> DistinctPage(valuesFetch, GetDistinctValueCount(countFetch),
                           OptOffset(req.options))]

\* What the two sub-queries of a request can come back with: the remote's
\* answer, or a failure, delivered either way.
CountFetches(n) ==
    {Fetch(reply, delivery) :
        reply \in {Response(StatusOK, CountRows(n))} \cup FailedReplies,
        delivery \in {"reject", "resolve"}}
ValueFetches(n, req) ==
    {Fetch(reply, delivery) :
        reply \in {Response(StatusOK,
                       ValueRows(n, req.column, OptLimit(req.options),
                                 OptOffset(req.options),
                                 OptSearch(req.options)))}
                     \cup FailedReplies,
        delivery \in {"reject", "resolve"}}

\* What the promise of a request can settle to.
RequestOutcomes(n, req) ==
    {RequestSettles(req, countFetch, valuesFetch) :
        countFetch \in CountFetches(n),
        valuesFetch \in ValueFetches(n, req)}

\* The texts typed into the search input.
SearchTexts == {"", "5"}

\* The numbers of distinct values of the columns browsed in the modal.
SessionCounts == {SmallDistinct + 2, MaxDistinct}

\* The requests the modal can issue, and what each can settle to, tabulated.
SessionRequests ==
    LET cols == {WhereColumns[i] : i \in 1..Len(WhereColumns)}
    IN  {LoadRequest(c) : c \in cols}
        \cup {NavRequest(c, p, t) : c \in cols, p \in 0..MaxPage,
                                    t \in SearchTexts}
        \cup {SearchRequest(c, t) : c \in cols, t \in SearchTexts}
OutcomeTable ==
    [n \in SessionCounts |->
        [req \in SessionRequests |-> RequestOutcomes(n, req)]]

\* The modal is in use; its user lets at most InFlightLimit requests be in
\* flight at once: MaxPending, and one more when typing and reopening
\* without waiting for the responses (bpc = "overlap").
Browsing == bpc \in {"session", "overlap"}
InFlightLimit == IF bpc = "overlap" THEN MaxPending + 1 ELSE MaxPending

\* A click on a Values button: loadDistinctValues(index).
OpenValues ==
    /\ Browsing
    /\ ~ed.isValuesModalOpen
    /\ BagCardinality(pending) < InFlightLimit
    /\ \E index \in 0..(Len(WhereColumns) - 1) :
          /\ ed' = Opened(ed, index)
          /\ pending' = pending (+) SetToBag({LoadRequest(WhereColumns[index + 1])})
    /\ UNCHANGED <<caller, args, ndistinct, bpc, sub, totalCount, ret>>
    /\ UNCHANGED <<builder, built>>
    /\ UNCHANGED hostVars
    /\ UNCHANGED backendVars

\* The search input changes: handleSearchChange(newSearchText).
SearchChange ==
    /\ Browsing
    /\ ed.isValuesModalOpen
    /\ BagCardinality(pending) < InFlightLimit
    /\ \E newSearchText \in SearchTexts \ {ed.searchFilter} :
          /\ ed' = SearchChanged(ed, newSearchText)
          /\ pending' = pending (+) SetToBag({
                SearchRequest(WhereColumns[ed.currentWhereClauseIndex + 1],
                              newSearchText)})
    /\ UNCHANGED <<caller, args, ndistinct, bpc, sub, totalCount, ret>>
    /\ UNCHANGED <<builder, built>>
    /\ UNCHANGED hostVars
    /\ UNCHANGED backendVars

\* A click on Previous or Next: navigatePage(direction).
NavigatePage ==
    /\ Browsing
    /\ ed.isValuesModalOpen
    /\ PaginationShown(ed)
    /\ \E direction \in {"prev", "next"} :
          /\ direction = "prev" => PrevEnabled(ed)
          /\ direction = "next" => NextEnabled(ed)
          /\ NewPage(direction, ed.currentPage) <= MaxPage
          /\ ed' = [ed EXCEPT !.loadingDistinctValues = TRUE]
          /\ pending' = pending (+) SetToBag({
                NavRequest(WhereColumns[ed.currentWhereClauseIndex + 1],
                           NewPage(direction, ed.currentPage),
                           ed.searchFilter)})
    /\ UNCHANGED <<caller, args, ndistinct, bpc, sub, totalCount, ret>>
    /\ UNCHANGED <<builder, built>>
    /\ UNCHANGED hostVars
    /\ UNCHANGED backendVars

\* A click on a value of the list (the first one).
SelectValue ==
    /\ Browsing
    /\ ed.isValuesModalOpen
    /\ ~ed.loadingDistinctValues
    /\ Len(ed.distinctValues) > 0
    /\ \E i \in {1} :
          /\ ed.selectedValue # ed.distinctValues[i]
          /\ ed' = [ed EXCEPT !.selectedValue = ed.distinctValues[i]]
    /\ UNCHANGED <<caller, args, ndistinct, bpc, sub, totalCount, ret>>
    /\ UNCHANGED editorVars
    /\ UNCHANGED backendVars

\* The modal is dismissed or cancelled.
Dismiss ==
    /\ Browsing
    /\ ed.isValuesModalOpen
    /\ ed' = [ed EXCEPT !.isValuesModalOpen = FALSE]
    /\ UNCHANGED <<caller, args, ndistinct, bpc, sub, totalCount, ret>>
    /\ UNCHANGED editorVars
    /\ UNCHANGED backendVars

\* The promise of one of the requests in flight settles, whichever: its
\* count query and its value query were answered or failed.
Settle ==
    /\ Browsing
    /\ \E req \in BagToSet(pending) :
          \E settled \in OutcomeTable[ndistinct][req] :
             /\ ed' = Settled(ed, req, settled)
             /\ pending' = pending (-) SetToBag({req})
    /\ UNCHANGED <<caller, args, ndistinct, bpc, sub, totalCount, ret>>
    /\ UNCHANGED <<builder, built>>
    /\ UNCHANGED hostVars
    /\ UNCHANGED backendVars

SessionNext ==
    \/ OpenValues
    \/ SearchChange
    \/ NavigatePage
    \/ SelectValue
    \/ Dismiss
    \/ Settle

(***************************************************************************)
(* The frontend's applyTemplateVariables: the host's template variables    *)
(* and the time macros $__timeFrom() and $__timeTo() of a raw query text.  *)
(***************************************************************************)
TimeFromMacro == "$__timeFrom()"
TimeToMacro == "$__timeTo()"

\* String.prototype.padStart(w, '0') of a number's decimal text.
PadStart(n, w) ==
    IF w = 4 /\ n < 10 THEN "000" \o ToString(n)
    ELSE IF w = 4 /\ n < 100 THEN "00" \o ToString(n)
    ELSE IF w = 4 /\ n < 1000 THEN "0" \o ToString(n)
    ELSE IF w = 3 /\ n < 10 THEN "00" \o ToString(n)
    ELSE IF w = 3 /\ n < 100 THEN "0" \o ToString(n)
    ELSE IF w = 2 /\ n < 10 THEN "0" \o ToString(n)
    ELSE ToString(n)

\* The host's ${__from:date:iso}: the instant as YYYY-MM-DDTHH:mm:ss.sssZ.
ToISOString(t) ==
    PadStart(t.year, 4) \o "-" \o PadStart(t.month, 2) \o "-"
    \o PadStart(t.day, 2) \o "T" \o PadStart(t.hours, 2) \o ":"
    \o PadStart(t.minutes, 2) \o ":" \o PadStart(t.seconds, 2) \o "."
    \o PadStart(t.ms, 3) \o "Z"

\* new Date(isoTimestamp) of such a text, by its getUTC... accessors
\* (getUTCMonth counts from 0).
NewDate(iso) ==
    [getUTCFullYear |-> DigitsVal(iso, 1, 4),
     getUTCMonth    |-> DigitsVal(iso, 6, 7) - 1,
     getUTCDate     |-> DigitsVal(iso, 9, 10),
     getUTCHours    |-> DigitsVal(iso, 12, 13),
     getUTCMinutes  |-> DigitsVal(iso, 15, 16),
     getUTCSeconds  |-> DigitsVal(iso, 18, 19)]

\* formatOcientTimestamp: the year as it prints, the rest padded to two.
FormatOcientTimestamp(isoTimestamp) ==
    ToString(NewDate(isoTimestamp).getUTCFullYear) \o "-"
    \o PadStart(NewDate(isoTimestamp).getUTCMonth + 1, 2) \o "-"
    \o PadStart(NewDate(isoTimestamp).getUTCDate, 2) \o " "
    \o PadStart(NewDate(isoTimestamp).getUTCHours, 2) \o ":"
    \o PadStart(NewDate(isoTimestamp).getUTCMinutes, 2) \o ":"
    \o PadStart(NewDate(isoTimestamp).getUTCSeconds, 2)

\* getTimeFromValue, getTimeToValue
GetTimeFromValue(range) == FormatOcientTimestamp(ToISOString(range.from))
GetTimeToValue(range) == FormatOcientTimestamp(ToISOString(range.to))

\* s has pat at index i.
MatchAt(s, i, pat) ==
    /\ i + Len(pat) - 1 <= Len(s)
    /\ SubSeq(s, i, i + Len(pat) - 1) = pat

\* String.prototype.replace without the g flag: the first match only.
RECURSIVE ReplaceFirstFrom(_, _, _, _)
ReplaceFirstFrom(s, i, pat, replacement) ==
    IF i > Len(s) THEN ""
    ELSE IF MatchAt(s, i, pat)
    THEN replacement \o SubSeq(s, i + Len(pat), Len(s))
    ELSE CharAt(s, i) \o ReplaceFirstFrom(s, i + 1, pat, replacement)
ReplaceFirst(s, pat, replacement) == ReplaceFirstFrom(s, 1, pat, replacement)

\* String.prototype.replace with a g-flagged pattern of literal characters:
\* every match, left to right, the search resuming after each match.
RECURSIVE ReplaceAllFrom(_, _, _, _)
ReplaceAllFrom(s, i, pat, replacement) ==
    IF i > Len(s) THEN ""
    ELSE IF MatchAt(s, i, pat)
    THEN replacement \o ReplaceAllFrom(s, i + Len(pat), pat, replacement)
    ELSE CharAt(s, i) \o ReplaceAllFrom(s, i + 1, pat, replacement)
ReplaceAll(s, pat, replacement) == ReplaceAllFrom(s, 1, pat, replacement)

\* getTemplateSrv().replace(text, scopedVars): the dashboard's variable $v.
TemplateSrvReplace(text, scopedVars) == ReplaceAll(text, "$v", scopedVars.v)

\* { ...query, queryText }
SpreadQueryText(q, queryText) ==
    [f \in DOMAIN q \cup {"queryText"} |->
        IF f = "queryText" THEN queryText ELSE q[f]]

\* applyTemplateVariables(query, scopedVars)
ApplyTemplateVariables(q, range, scopedVars) ==
    SpreadQueryText(q,
        ReplaceAll(
            ReplaceAll(
                TemplateSrvReplace(
                    IF "queryText" \in DOMAIN q THEN q.queryText ELSE "",
                    scopedVars),
                TimeFromMacro, "'" \o GetTimeFromValue(range) \o "'"),
            TimeToMacro, "'" \o GetTimeToValue(range) \o "'"))

\* Inputs: query texts made of at most MaxPieces pieces, some of which are
\* or together form a macro; queries with and without a text; instants.
Pieces == {"t > ", "$__timeFrom()", "$__timeTo()", "$__time", "From()", "$v"}
RECURSIVE Concat(_)
Concat(strs) == IF Len(strs) = 0 THEN "" ELSE strs[1] \o Concat(Tail(strs))
MacroTexts == {Concat(ps) : ps \in SeqsUpTo(Pieces, MaxPieces)}
MacroQueries ==
    {[refId |-> "A", queryText |-> t, rawQuery |-> TRUE] : t \in MacroTexts}
    \cup {[refId |-> "B", schema |-> "s", table |-> "t", rawQuery |-> FALSE]}
Instants ==
    {[year |-> 2024, month |-> 1, day |-> 5, hours |-> 3, minutes |-> 4,
      seconds |-> 9, ms |-> 0],
     [year |-> 1999, month |-> 12, day |-> 31, hours |-> 23, minutes |-> 59,
      seconds |-> 59, ms |-> 999]}
Ranges == {[from |-> a, to |-> b] : a \in Instants, b \in Instants}
ScopedVars == {[v |-> "7"], [v |-> "$__timeTo()"]}

\* The host calls applyTemplateVariables on a query of the panel.
ApplyTemplate ==
    /\ macro.pc = "raw"
    /\ macro' = [macro EXCEPT
                    !.pc = "applied",
                    !.out = ApplyTemplateVariables(macro.query, macro.range,
                                                   macro.scopedVars)]
    /\ UNCHANGED <<builder, built, pending, batch>>
    /\ UNCHANGED backendVars
    /\ UNCHANGED browseVars

(***************************************************************************)
(* Specifications.                                                         *)
(***************************************************************************)
BrowseIdle ==
    /\ caller = "direct"
    /\ args = [schema |-> "s", table |-> "t", column |-> "c", options |-> <<>>]
    /\ ndistinct = 0
    /\ bpc = "off"
    /\ sub = NoSub
    /\ totalCount = 0
    /\ ret = [kind |-> "resolved", page |-> EmptyPage]
    /\ ed = EditorInit

BackendIdle ==
    /\ query = GoodQuery
    /\ remote = Transport
    /\ pc = "off"
    /\ exec = NoExec
    /\ columns = <<>>
    /\ columnTypes = <<>>
    /\ columnValues = <<>>
    /\ parsedBy = <<>>
    /\ row = 0
    /\ response = DataResponse(<<>>)
    /\ requests = 0
    /\ earlier = NoResponse

\* The backend serves one query over rows of two columns.
Init == BackendStart(Remotes) /\ BrowseIdle /\ EditorIdle
Next == BackendNext
Spec == Init /\ [][Next]_vars

\* The backend serves one query over one column of timestamp-like strings.
InitTs == BackendStart(TsRemotes) /\ BrowseIdle /\ EditorIdle
SpecTs == InitTs /\ [][Next]_vars

\* The frontend serves one browsing request.
InitBrowse ==
    /\ BackendIdle
    /\ EditorIdle
    /\ \/ /\ caller = "direct"
          /\ \E nm \in Names, o \in OptionSets :
                args = [schema |-> nm.schema, table |-> nm.table,
                        column |-> nm.column, options |-> o]
       \/ /\ caller = "editor"
          /\ \E nm \in Names :
                args = [schema |-> nm.schema, table |-> nm.table,
                        column |-> nm.column,
                        options |-> [limit |-> PAGE_SIZE, offset |-> 0]]
    /\ ndistinct \in DistinctCounts
    /\ bpc = "idle"
    /\ sub = NoSub
    /\ totalCount = 0
    /\ ret = [kind |-> "resolved", page |-> EmptyPage]
    /\ ed = EditorInit
NextBrowse == BrowseNext
SpecBrowse == InitBrowse /\ [][NextBrowse]_vars

(***************************************************************************)
(* The query editor's column selection: onAddColumn, onRemoveColumn,       *)
(* onToggleTimeseriesColumn.                                               *)
(***************************************************************************)
\* String.prototype.toLowerCase on the letters of the type names.
LowerOf(ch) ==
    CASE ch = "A" -> "a" [] ch = "D" -> "d" [] ch = "E" -> "e"
      [] ch = "I" -> "i" [] ch = "M" -> "m" [] ch = "N" -> "n"
      [] ch = "P" -> "p" [] ch = "S" -> "s" [] ch = "T" -> "t"
      [] OTHER -> ch
RECURSIVE ToLowerCase(_)
ToLowerCase(s) ==
    IF Len(s) = 0 THEN ""
    ELSE LowerOf(SubSeq(s, 1, 1)) \o ToLowerCase(SubSeq(s, 2, Len(s)))

\* The columns of the chosen table (the editor's `columns` state).
TableColumns ==
    <<[column_name |-> "ts", data_type |-> "TIMESTAMP"],
      [column_name |-> "day", data_type |-> "Date"],
      [column_name |-> "x", data_type |-> "INT"],
      [column_name |-> "y", data_type |-> "int"]>>
TableColumnNames == {TableColumns[i].column_name : i \in DOMAIN TableColumns}

\* The render condition of a selected column's Time Column checkbox: the
\* table has the column and its type contains 'timestamp' or 'date'.
HasTimeCheckbox(name) ==
    \E i \in DOMAIN TableColumns :
       /\ TableColumns[i].column_name = name
       /\ \/ Contains(ToLowerCase(TableColumns[i].data_type), "timestamp")
          \/ Contains(ToLowerCase(TableColumns[i].data_type), "date")

\* selectedColumns.some(c => c.name === name)
IsSelected(b, name) ==
    \E i \in DOMAIN b.selectedColumns : b.selectedColumns[i].name = name

\* Array.prototype.filter(c => c.name !== name)
RECURSIVE WithoutColumn(_, _)
WithoutColumn(cols, name) ==
    IF cols = <<>> THEN <<>>
    ELSE (IF cols[1].name # name THEN <<cols[1]>> ELSE <<>>)
           \o WithoutColumn(Tail(cols), name)

\* onAddColumn with newColumnSelection = name ('' when nothing is chosen).
OnAddColumn(b, name) ==
    IF name = "" THEN b
    ELSE IF IsSelected(b, name) THEN b
    ELSE [b EXCEPT !.selectedColumns =
             Append(@, [name |-> name, isTimeseriesColumn |-> FALSE])]

\* onRemoveColumn(columnName)
OnRemoveColumnKeepTime(b, columnName) ==
    [b EXCEPT !.selectedColumns = WithoutColumn(@, columnName)]
OnRemoveColumn(b, columnName) ==
    [b EXCEPT !.selectedColumns = WithoutColumn(@, columnName),
              !.timeseriesColumn =
                  IF @ = columnName THEN "" ELSE @]

\* onToggleTimeseriesColumn(columnName, isTimeseriesColumn)
OnToggleTimeseriesColumnKeepOthers(b, columnName, isTimeseriesColumn) ==
    [b EXCEPT !.selectedColumns =
                 [i \in DOMAIN @ |->
                     IF @[i].name = columnName
                     THEN [@[i] EXCEPT
                             !.isTimeseriesColumn = isTimeseriesColumn]
                     ELSE @[i]],
              !.timeseriesColumn =
                 IF isTimeseriesColumn THEN columnName ELSE ""]
OnToggleTimeseriesColumn(b, columnName, isTimeseriesColumn) ==
    [b EXCEPT !.selectedColumns =
                 [i \in DOMAIN @ |->
                     IF @[i].name = columnName
                     THEN [@[i] EXCEPT
                             !.isTimeseriesColumn = isTimeseriesColumn]
                     ELSE IF isTimeseriesColumn
                     THEN [@[i] EXCEPT !.isTimeseriesColumn = FALSE]
                     ELSE @[i]],
              !.timeseriesColumn =
                 IF isTimeseriesColumn THEN columnName ELSE ""]

\* The editor's column selection is in use.
Selecting == bpc = "columns"

\* A click on Add with a column of the table chosen in the dropdown, or
\* with nothing chosen.
AddColumn ==
    /\ Selecting
    /\ \E name \in TableColumnNames \cup {""} :
          builder' = OnAddColumn(builder, name)
    /\ UNCHANGED <<built, pending>>
    /\ UNCHANGED hostVars
    /\ UNCHANGED backendVars
    /\ UNCHANGED browseVars

\* A click on the trash icon of a selected column.
RemoveColumn ==
    /\ Selecting
    /\ \E i \in DOMAIN builder.selectedColumns :
          builder' = OnRemoveColumn(builder, builder.selectedColumns[i].name)
    /\ UNCHANGED <<built, pending>>
    /\ UNCHANGED hostVars
    /\ UNCHANGED backendVars
    /\ UNCHANGED browseVars

\* A click on the Time Column checkbox of a selected column: the checkbox
\* shows the column's flag and reports the flag's negation.
ToggleTimeseriesColumn ==
    /\ Selecting
    /\ \E i \in DOMAIN builder.selectedColumns :
          /\ HasTimeCheckbox(builder.selectedColumns[i].name)
          /\ builder' = OnToggleTimeseriesColumn(
                 builder, builder.selectedColumns[i].name,
                 ~builder.selectedColumns[i].isTimeseriesColumn)
    /\ UNCHANGED <<built, pending>>
    /\ UNCHANGED hostVars
    /\ UNCHANGED backendVars
    /\ UNCHANGED browseVars

(***************************************************************************)
(* The backend's QueryData: the loop over the request's queries.           *)
(***************************************************************************)
\* query's whole result for one DataQuery and what the remote answers to it.
QueryOf(q, reply) ==
    IF q.json = "bad"
    THEN ErrDataResponse("BadRequest", "json unmarshal: error")
    ELSE IF q.queryText = ""
    THEN ErrDataResponse("BadRequest", "query text is empty")
    ELSE QueryResponse(reply, OnlyOrder(reply.data))

\* response.Responses[q.RefID] = res
SaveResponseUnlessError(responses, refID, res) ==
    IF res.Error # "" THEN responses
    ELSE [r \in DOMAIN responses \cup {refID} |->
             IF r = refID THEN res ELSE responses[r]]
SaveResponse(responses, refID, res) ==
    [r \in DOMAIN responses \cup {refID} |->
        IF r = refID THEN res ELSE responses[r]]

\* The RefID of the request's i-th query: each query of a request has its
\* own.
RefIDOf(i) == SubSeq("ABCDEFGH", i, i)

\* What the remote answers to a query of the request.
BatchReplies ==
    {Transport, Response(StatusSyntax, <<>>), Response(StatusOK, <<>>),
     Response(StatusOK, CountRows(1))}

\* The queries of a request, each with the remote's answer to it.
BatchQueries ==
    {[query |-> q, remote |-> Transport] : q \in {BadJSON, EmptyText}}
      \cup {[query |-> GoodQuery, remote |-> reply] : reply \in BatchReplies}
BatchRequests ==
    UNION {{[i \in 1..n |-> [RefID |-> RefIDOf(i), query |-> qs[i].query,
                             remote |-> qs[i].remote]] :
               qs \in [1..n -> BatchQueries]} : n \in 0..MaxQueries}

\* QueryData is serving a request.
Serving == batch.pc \in {"loop", "returned"}

\* One iteration of QueryData's loop: res := d.query(ctx, pCtx, q), saved
\* under q.RefID.
QueryDataStep ==
    /\ batch.pc = "loop"
    /\ batch.i <= Len(batch.queries)
    /\ batch' = [batch EXCEPT
          !.responses = SaveResponse(@, batch.queries[batch.i].RefID,
                                     QueryOf(batch.queries[batch.i].query,
                                             batch.queries[batch.i].remote)),
          !.i = @ + 1]
    /\ UNCHANGED <<builder, built, pending, macro>>
    /\ UNCHANGED backendVars
    /\ UNCHANGED browseVars

\* The loop is over: return response, nil
QueryDataReturn ==
    /\ batch.pc = "loop"
    /\ batch.i > Len(batch.queries)
    /\ batch' = [batch EXCEPT !.pc = "returned", !.err = "nil"]
    /\ UNCHANGED <<builder, built, pending, macro>>
    /\ UNCHANGED backendVars
    /\ UNCHANGED browseVars

\* The editor builds one query.
InitBuild ==
    /\ BackendIdle
    /\ caller = "editor"
    /\ args = [schema |-> "s", table |-> "t", column |-> "c", options |-> <<>>]
    /\ ndistinct = 0
    /\ bpc = "build"
    /\ sub = NoSub
    /\ totalCount = 0
    /\ ret = [kind |-> "resolved", page |-> EmptyPage]
    /\ ed = EditorInit
    /\ builder \in Builders
    /\ built = "unset"
    /\ pending = EmptyBag
    /\ HostIdle
NextBuild == RunBuildQuery
SpecBuild == InitBuild /\ [][NextBuild]_vars

\* The editor's value browser is used on two columns.
InitSession ==
    /\ BackendIdle
    /\ caller = "editor"
    /\ args = [schema |-> "s", table |-> "t", column |-> "c", options |-> <<>>]
    /\ ndistinct \in SessionCounts
    /\ bpc = "session"
    /\ sub = NoSub
    /\ totalCount = 0
    /\ ret = [kind |-> "resolved", page |-> EmptyPage]
    /\ ed = EditorInit
    /\ EditorIdle
NextSession == SessionNext
SpecSession == InitSession /\ [][NextSession]_vars

\* The editor's column selection, from an empty selection.
InitColumns ==
    /\ BackendIdle
    /\ caller = "editor"
    /\ args = [schema |-> "s", table |-> "t", column |-> "c", options |-> <<>>]
    /\ ndistinct = 0
    /\ bpc = "columns"
    /\ sub = NoSub
    /\ totalCount = 0
    /\ ret = [kind |-> "resolved", page |-> EmptyPage]
    /\ ed = EditorInit
    /\ EditorIdle
NextColumns == AddColumn \/ RemoveColumn \/ ToggleTimeseriesColumn
SpecColumns == InitColumns /\ [][NextColumns]_vars

\* The backend serves one QueryData request: response :=
\* backend.NewQueryDataResponse().
InitBatch ==
    /\ BackendIdle
    /\ BrowseIdle
    /\ builder = NoBuilder
    /\ built = "unset"
    /\ pending = EmptyBag
    /\ macro = NoMacro
    /\ \E qs \in BatchRequests :
          batch = [pc |-> "loop", queries |-> qs, i |-> 1,
                   responses |-> <<>>, err |-> "unset"]
NextBatch == QueryDataStep \/ QueryDataReturn
SpecBatch == InitBatch /\ [][NextBatch]_vars

\* The frontend applies the template variables to one query.
InitMacro ==
    /\ BackendIdle
    /\ BrowseIdle
    /\ builder = NoBuilder
    /\ built = "unset"
    /\ pending = EmptyBag
    /\ batch = NoBatch
    /\ \E q \in MacroQueries, r \in Ranges, sv \in ScopedVars :
          macro = [pc |-> "raw", query |-> q, range |-> r, scopedVars |-> sv,
                   out |-> q]
NextMacro == ApplyTemplate
SpecMacro == InitMacro /\ [][NextMacro]_vars

\* The frontend serves browsing requests one after another.
InitCalls ==
    /\ BackendIdle
    /\ EditorIdle
    /\ caller = "direct"
    /\ \E nm \in Names, o \in CallOptions :
          args = [schema |-> nm.schema, table |-> nm.table,
                  column |-> nm.column, options |-> o]
    /\ ndistinct \in CallCounts
    /\ bpc = "idle"
    /\ sub = NoSub
    /\ totalCount = 0
    /\ ret = [kind |-> "resolved", page |-> EmptyPage]
    /\ ed = EditorInit
NextCalls ==
    \/ CallDirect
    \/ CountQuery
    \/ ValueQuery
    \/ CallAgain
SpecCalls == InitCalls /\ [][NextCalls]_vars

\* The value browser used without waiting: searches typed and the modal
\* reopened while a response is outstanding, on columns of MaxDistinct
\* values.
InitOverlap ==
    /\ BackendIdle
    /\ caller = "editor"
    /\ args = [schema |-> "s", table |-> "t", column |-> "c", options |-> <<>>]
    /\ ndistinct = MaxDistinct
    /\ bpc = "overlap"
    /\ sub = NoSub
    /\ totalCount = 0
    /\ ret = [kind |-> "resolved", page |-> EmptyPage]
    /\ ed = EditorInit
    /\ EditorIdle
NextOverlap == SessionNext
SpecOverlap == InitOverlap /\ [][NextOverlap]_vars

(***************************************************************************)
(* Properties.                                                             *)
(***************************************************************************)
\* The remote answered the query with the success state and these rows.
Succeeded ==
    /\ query = GoodQuery
    /\ remote.kind = "response"
    /\ remote.status.sql_state = "00000"

\* The conversion has classified the columns (the fill loop runs or is over).
Classified == pc = "fill" \/ (pc = "done" /\ row > 0)

\* C1: for every non-empty RowSet the frame query returns has exactly one
\* field per key of the first row, and every field holds as many values as
\* the RowSet has rows, whatever later rows hold, lack or add.
C1_FieldPerKeyRowPerValue ==
    (pc = "done" /\ Succeeded /\ Len(remote.data) > 0) =>
        /\ Len(response.Frames) = 1
        /\ Len(response.Frames[1].fields) = Cardinality(DOMAIN remote.data[1])
        /\ {response.Frames[1].fields[i].name :
                i \in 1..Len(response.Frames[1].fields)} = DOMAIN remote.data[1]
        /\ \A i \in 1..Len(response.Frames[1].fields) :
               Len(response.Frames[1].fields[i].values) = Len(remote.data)

\* C1's case: two rows, the second lacks the first row's key, carries a key
\* the first row lacks, and the frame has been returned.
C1_Witness ==
    /\ pc = "done" /\ Succeeded
    /\ Len(remote.data) = 2
    /\ DOMAIN remote.data[1] = {"a"}
    /\ DOMAIN remote.data[2] = {"b"}
    /\ Len(response.Frames) = 1

\* C4: a response with a sql_state other than "00000" makes executeQuery
\* return no rows, the response's status unchanged and an error, and makes
\* query return an error response naming reason, state and vendor code,
\* without a frame; the rows of such a response are never converted.
C4_SqlErrorOutcome ==
    (query = GoodQuery /\ remote.kind = "response"
        /\ remote.status.sql_state # "00000") =>
        /\ pc \in {"executed", "done"} =>
              /\ exec.results = <<>>
              /\ exec.status = <<remote.status>>
              /\ exec.err # "nil"
        /\ pc = "done" =>
              /\ response.Frames = <<>>
              /\ response.Status = "Internal"
              /\ remote.status = StatusSyntax =>
                    response.Error =
                      "Query failed: syntax error (SQL state: 42601, vendor code: 7)"
              /\ remote.status = StatusZero =>
                    response.Error =
                      "Query failed:  (SQL state: , vendor code: 0)"
              /\ columns = <<>> /\ columnValues = <<>> /\ row = 0

\* C4's case: an error response that carries two rows has been answered.
C4_Witness ==
    /\ pc = "done" /\ query = GoodQuery
    /\ remote.kind = "response"
    /\ remote.status = StatusSyntax
    /\ Len(remote.data) = 2
    /\ response.Error # ""

\* No parse of the three layouts accepts the string.
NoLayoutParses(s) ==
    ~ParseOcient(s).ok /\ ~ParseRFC3339(s).ok /\ ~ParseDateTime(s).ok

\* C5: the conversion returns no error and drops no row: every column holds
\* one value per row gone through, a non-numeric cell of a Float column is 0,
\* a non-boolean cell of a Boolean column is false, and a cell of a Timestamp
\* column that is no string or parses in no layout is the zero instant.
C5_NeverFailNeverDrop ==
    /\ (pc = "done" /\ Succeeded) => response.Error = ""
    /\ Classified =>
          \A c \in DOMAIN columnValues :
              /\ Len(columnValues[c]) = row - 1
              /\ \A r \in 1..Len(columnValues[c]) :
                    /\ (columnTypes[c] = "float64"
                          /\ Lookup(exec.results[r], c).t # "number")
                          => columnValues[c][r] = 0
                    /\ (columnTypes[c] = "bool"
                          /\ Lookup(exec.results[r], c).t # "bool")
                          => columnValues[c][r] = FALSE
                    /\ (columnTypes[c] = "timestamp"
                          /\ (Lookup(exec.results[r], c).t # "string"
                                \/ NoLayoutParses(Lookup(exec.results[r], c).v)))
                          => columnValues[c][r] = ZeroTime

\* C5's case: a Boolean column "a" and a Float column "b" whose second row
\* holds strings, converted to the end.
C5_Witness ==
    /\ pc = "done" /\ Succeeded
    /\ Len(remote.data) = 2
    /\ DOMAIN remote.data[1] = {"a", "b"}
    /\ columnTypes["a"] = "bool" /\ columnTypes["b"] = "float64"
    /\ Lookup(remote.data[2], "a").t = "string"
    /\ Lookup(remote.data[2], "b").t = "string"

\* The cell does not match the column's type (a missing cell is nil).
Mismatch(type, val) ==
    \/ type = "float64" /\ val.t # "number"
    \/ type = "string" /\ val.t # "string"
    \/ type = "bool" /\ val.t # "bool"
    \/ type = "timestamp" /\ (val.t # "string" \/ NoLayoutParses(val.v))

\* C6 as stated: every missing or mismatched cell becomes its type's zero
\* value: 0, "", false, the zero instant.
C6_ZeroValueForAllTypes ==
    Classified =>
        \A c \in DOMAIN columnValues :
            \A r \in 1..Len(columnValues[c]) :
                Mismatch(columnTypes[c], Lookup(exec.results[r], c)) =>
                    columnValues[c][r] =
                        CASE columnTypes[c] = "float64" -> 0
                          [] columnTypes[c] = "string" -> ""
                          [] columnTypes[c] = "bool" -> FALSE
                          [] columnTypes[c] = "timestamp" -> ZeroTime

\* The text %v gives for the values of the model that are no strings.
C6_TextOf(val) ==
    IF val = JNull THEN "<nil>"
    ELSE IF val = JNum(42) THEN "42"
    ELSE IF val = JNum(7) THEN "7"
    ELSE IF val = JBool(TRUE) THEN "true"
    ELSE "[]"

\* C6 amended: a missing or mismatched cell becomes 0 in a Float column,
\* false in a Boolean column, the zero instant in a Timestamp column; in a
\* Text column it becomes the %v text of the value ("<nil>" for a missing or
\* null cell), not "".
C6_ZeroValueOrText ==
    Classified =>
        \A c \in DOMAIN columnValues :
            \A r \in 1..Len(columnValues[c]) :
                Mismatch(columnTypes[c], Lookup(exec.results[r], c)) =>
                    columnValues[c][r] =
                        CASE columnTypes[c] = "float64" -> 0
                          [] columnTypes[c] = "string" ->
                               C6_TextOf(Lookup(exec.results[r], c))
                          [] columnTypes[c] = "bool" -> FALSE
                          [] columnTypes[c] = "timestamp" -> ZeroTime

\* C6's case: a Text column whose second row lacks the cell.
C6_Witness ==
    /\ pc = "done" /\ Succeeded
    /\ Len(remote.data) = 2
    /\ "a" \in DOMAIN remote.data[1]
    /\ columnTypes["a"] = "string"
    /\ "a" \notin DOMAIN remote.data[2]
    /\ columnValues["a"][2] = "<nil>"

\* The type the first row's value stands for.
C7_TypeOf(v) ==
    IF v.t = "string" /\ ~NoLayoutParses(v.v) THEN "timestamp"
    ELSE IF v.t = "number" THEN "float64"
    ELSE IF v.t = "bool" THEN "bool"
    ELSE "string"

\* C7: a column's type is the one the first row's value stands for (a string
\* in a timestamp layout: Timestamp; else float64: Float; else bool: Boolean;
\* anything else: Text), for every row the fill loop goes through and in the
\* frame returned.
C7_TypeFromFirstRow ==
    /\ Classified =>
          /\ DOMAIN columnTypes = DOMAIN exec.results[1]
          /\ \A c \in DOMAIN columnTypes :
                columnTypes[c] = C7_TypeOf(exec.results[1][c])
    /\ (pc = "done" /\ row > 0) =>
          \A i \in 1..Len(response.Frames[1].fields) :
              response.Frames[1].fields[i].type =
                  C7_TypeOf(exec.results[1][response.Frames[1].fields[i].name])

\* C7's case: the first row holds a bool and the second a number in the same
\* column; the frame has been returned.
C7_Witness ==
    /\ pc = "done" /\ Succeeded
    /\ Len(remote.data) = 2
    /\ "a" \in DOMAIN remote.data[1] /\ remote.data[1]["a"].t = "bool"
    /\ Lookup(remote.data[2], "a").t = "number"
    /\ columnTypes["a"] = "bool"

\* C10: an empty or absent RowSet converts to a frame without fields and
\* without error: a successful query without rows returns a response with no
\* error holding exactly that frame.
C10_EmptyRowSetEmptyFrame ==
    (pc = "done" /\ Succeeded /\ Len(remote.data) = 0) =>
        /\ response.Error = ""
        /\ response.Frames = <<[name |-> "response", fields |-> <<>>]>>

\* C10's case: the remote answered success without rows.
C10_Witness ==
    /\ pc = "done" /\ Succeeded
    /\ remote.data = <<>>
    /\ Len(response.Frames) = 1

\* A valid calendar date yyyy-mm-dd in the first ten characters.
C8_Date(s) ==
    /\ \A i \in {1, 2, 3, 4, 6, 7, 9, 10} : IsDigitAt(s, i)
    /\ CharAt(s, 5) = "-" /\ CharAt(s, 8) = "-"
    /\ DigitsVal(s, 6, 7) \in 1..12
    /\ DigitsVal(s, 9, 10) \in 1..DaysIn(DigitsVal(s, 6, 7), DigitsVal(s, 1, 4))

\* A time of day hh:mm:ss in the characters 12 to 19.
C8_Clock(s) ==
    /\ \A i \in {12, 13, 15, 16, 18, 19} : IsDigitAt(s, i)
    /\ CharAt(s, 14) = ":" /\ CharAt(s, 17) = ":"
    /\ DigitsVal(s, 12, 13) <= 23
    /\ DigitsVal(s, 15, 16) <= 59
    /\ DigitsVal(s, 18, 19) <= 59

\* Z, or a numeric offset +hh:mm or -hh:mm, from e to the end of the string.
C8_Zone(s, e) ==
    \/ CharAt(s, e) = "Z" /\ Len(s) = e
    \/ /\ CharAt(s, e) \in {"+", "-"}
       /\ \A i \in {e + 1, e + 2, e + 4, e + 5} : IsDigitAt(s, i)
       /\ CharAt(s, e + 3) = ":"
       /\ Len(s) = e + 5
       /\ DigitsVal(s, e + 1, e + 2) <= 23
       /\ DigitsVal(s, e + 4, e + 5) <= 59

\* The native format: date, space, time, and at most nine fractional digits.
IsNativeFormat(s) ==
    /\ C8_Date(s) /\ CharAt(s, 11) = " " /\ C8_Clock(s)
    /\ \/ Len(s) = 19
       \/ /\ CharAt(s, 20) = "."
          /\ Len(s) \in 21..29
          /\ \A i \in 21..Len(s) : IsDigitAt(s, i)

\* The internet timestamp format: date, T, time, an optional fraction, a zone.
IsInternetFormat(s) ==
    /\ C8_Date(s) /\ CharAt(s, 11) = "T" /\ C8_Clock(s)
    /\ IF CharAt(s, 20) = "."
       THEN IsDigitAt(s, 21) /\ C8_Zone(s, SkipDigits(s, 21))
       ELSE C8_Zone(s, 20)

\* C8: a first-row string in the native format or in the internet format
\* makes its column a Timestamp column, and every row of a Timestamp column
\* whose value is in the native format is parsed by the native branch of the
\* coercion, to the instant the string writes.
C8_NativeAndInternetDetected ==
    Classified =>
        \A c \in DOMAIN columnTypes :
            /\ (exec.results[1][c].t = "string"
                  /\ (IsNativeFormat(exec.results[1][c].v)
                        \/ IsInternetFormat(exec.results[1][c].v)))
                  => columnTypes[c] = "timestamp"
            /\ columnTypes[c] = "timestamp" =>
                  \A r \in 1..Len(columnValues[c]) :
                      (Lookup(exec.results[r], c).t = "string"
                         /\ IsNativeFormat(Lookup(exec.results[r], c).v)) =>
                          /\ parsedBy[c][r] = "ocient"
                          /\ columnValues[c][r].year =
                               DigitsVal(Lookup(exec.results[r], c).v, 1, 4)
                          /\ columnValues[c][r].sec =
                               DigitsVal(Lookup(exec.results[r], c).v, 18, 19)
                          /\ columnValues[c][r].offset = 0

\* C8's case: a first row in the internet format, a second row in the native
\* format with nine fractional digits, both converted.
C8_Witness ==
    /\ pc = "done" /\ Succeeded
    /\ Len(remote.data) = 2
    /\ remote.data[1]["a"] = JStr("2024-01-15T10:30:00.5+05:30")
    /\ remote.data[2]["a"] = JStr("2024-01-15 10:30:00.123456789")
    /\ columnTypes["a"] = "timestamp"
    /\ parsedBy["a"] = <<"rfc3339", "ocient">>
    /\ columnValues["a"][2].nsec = 123456789

\* The first of the layouts, in the order native, internet, bare, that
\* parses the string.
C9_FirstLayout(s) ==
    IF ParseOcient(s).ok THEN "ocient"
    ELSE IF ParseRFC3339(s).ok THEN "rfc3339"
    ELSE IF ParseDateTime(s).ok THEN "datetime"
    ELSE "zero"

\* C9: detection and coercion try the same layouts in the same order: a
\* first-row string is classified Timestamp exactly when the coercion parses
\* it without falling back to the zero instant, every string of a Timestamp
\* column is parsed by the first layout that accepts it, and a string no
\* layout accepts is not classified Timestamp.
C9_DetectionMatchesCoercion ==
    Classified =>
        \A c \in DOMAIN columnTypes :
            /\ exec.results[1][c].t = "string" =>
                  /\ (columnTypes[c] = "timestamp")
                        <=> (CoerceTimestamp(exec.results[1][c]).by # "zero")
                  /\ NoLayoutParses(exec.results[1][c].v)
                        => columnTypes[c] # "timestamp"
                  /\ Len(parsedBy[c]) >= 1 =>
                        ((columnTypes[c] = "timestamp")
                           <=> (parsedBy[c][1]
                                  \in {"ocient", "rfc3339", "datetime"}))
            /\ columnTypes[c] = "timestamp" =>
                  \A r \in 1..Len(parsedBy[c]) :
                      Lookup(exec.results[r], c).t = "string" =>
                          parsedBy[c][r] =
                              C9_FirstLayout(Lookup(exec.results[r], c).v)

\* C9's case: a first row only the internet layout accepts, a second row no
\* layout accepts, both converted.
C9_Witness ==
    /\ pc = "done" /\ Succeeded
    /\ Len(remote.data) = 2
    /\ remote.data[1]["a"] = JStr("2024-01-15T10:30:00Z")
    /\ remote.data[2]["a"] = JStr("abc")
    /\ columnTypes["a"] = "timestamp"
    /\ parsedBy["a"] = <<"rfc3339", "zero">>
    /\ columnValues["a"][2] = ZeroTime

\* getDistinctColumnValues was called with all three names and no search
\* pattern, both its sub-queries succeeded, and it has returned.
C2_Returned ==
    /\ bpc \in {"returned", "done"}
    /\ caller = "direct"
    /\ ~MissingName(args)
    /\ OptSearch(args.options) = ""
    /\ sub.count = "ok" /\ sub.values = "ok"

\* The page the claim states for N distinct values, limit L and offset o.
C2_PageIs(N, L, o) ==
    /\ ret.kind = "resolved"
    /\ Len(ret.page.values) = Min(L, Max(0, N - o))
    /\ ret.page.totalCount = N
    /\ ret.page.hasMore = (o + Len(ret.page.values) < ret.page.totalCount)

\* C2 as stated: with N distinct non-null values, limit L and offset o the
\* call returns min(L, max(0, N - o)) values, totalCount N, and hasMore
\* exactly when o + (values returned) < totalCount.
C2_PageOfLimitAndOffset ==
    (C2_Returned /\ "limit" \in DOMAIN args.options) =>
        C2_PageIs(ndistinct, args.options.limit, OptOffset(args.options))

\* C2 for the limits the code does not replace: the statement holds for
\* every limit L >= 1, and for an absent limit with L = 100.
C2_PageOfEffectiveLimit ==
    C2_Returned =>
        C2_PageIs(ndistinct,
                  IF "limit" \in DOMAIN args.options /\ args.options.limit >= 1
                  THEN args.options.limit ELSE 100,
                  OptOffset(args.options))

\* C2's failing case: a call with limit 0 on a column of two distinct values
\* has returned both.
C2_Witness ==
    /\ C2_Returned
    /\ ndistinct = 2
    /\ "limit" \in DOMAIN args.options /\ args.options.limit = 0
    /\ OptOffset(args.options) = 0
    /\ Len(ret.page.values) = 2

\* One of the two sub-queries of the call failed.
C3_SubQueryFailed ==
    /\ ~MissingName(args)
    /\ \/ sub.count \in {"rejected", "nodata"}
       \/ sub.values \in {"rejected", "nodata"}

\* C3: a failure of either sub-query surfaces to the caller of
\* getDistinctColumnValues as an error, and the editor that made the call
\* reports an error message naming the column.
C3_FailureSurfaces ==
    /\ (bpc \in {"returned", "done"} /\ C3_SubQueryFailed)
          => ret.kind = "rejected"
    /\ (bpc = "done" /\ caller = "editor" /\ C3_SubQueryFailed)
          => ed.error = LoadErrorText(args.column)

\* C3's failing case: the editor's value query failed and the editor has
\* resumed without an error message.
C3_Witness ==
    /\ bpc = "done" /\ caller = "editor"
    /\ sub.count = "ok" /\ sub.values = "rejected"
    /\ ed.error = ""
    /\ ~ed.loadingDistinctValues

\* C11: a query whose SQL text is empty makes no network call: the
\* frontend's filterQuery excludes it from execution, and query(), when it
\* gets one, returns a bad-request error without calling executeQuery.
C11_EmptyTextNeverSent ==
    /\ [](query.queryText = "" =>
            /\ pc \in {"panel", "excluded", "query", "done"}
            /\ requests = 0
            /\ exec = NoExec)
    /\ [][query.queryText = "" =>
            /\ pc = "panel" => pc' = "excluded"
            /\ pc = "query" =>
                  /\ pc' = "done"
                  /\ response'.Status = "BadRequest"
                  /\ response'.Error # ""
                  /\ response'.Frames = <<>>
                  /\ requests' = 0]_vars

\* C11's case: query() has answered a query with an empty text.
C11_Witness ==
    /\ pc = "done"
    /\ query = EmptyText
    /\ response = [Error |-> "query text is empty", Status |-> "BadRequest",
                   Frames |-> <<>>]
    /\ requests = 0

\* C18: executeQuery tells its failures apart: a transport failure and a
\* body that is no JSON give an error without status, each with its own
\* message; only a decoded response with a sql_state other than "00000"
\* gives an error with the status. query reports the first two as a query
\* execution error and the third as "Query failed" with reason, state and
\* vendor code.
C18_FailureKinds ==
    (query = GoodQuery /\ pc \in {"executed", "done"}) =>
        /\ (exec.status # <<>> /\ exec.err # "nil")
              <=> (remote.kind = "response" /\ remote.status.sql_state # "00000")
        /\ remote.kind = "transport" =>
              /\ exec.status = <<>>
              /\ exec.err = "error executing query"
              /\ pc = "done" => response.Error =
                    "query execution error: error executing query"
        /\ remote.kind = "badbody" =>
              /\ exec.status = <<>>
              /\ exec.err = "error parsing response"
              /\ pc = "done" => response.Error =
                    "query execution error: error parsing response"
        /\ (remote.kind = "response" /\ remote.status.sql_state # "00000") =>
              /\ exec.status = <<remote.status>>
              /\ pc = "done" =>
                    /\ SubSeq(response.Error, 1, 14) = "Query failed: "
                    /\ response.Error = "Query failed: " \o remote.status.reason
                          \o " (SQL state: " \o remote.status.sql_state
                          \o ", vendor code: "
                          \o (IF remote.status.vendor_code = 7 THEN "7" ELSE "0")
                          \o ")"

\* C18's case: the body was no JSON and query has answered.
C18_Witness ==
    /\ pc = "done" /\ query = GoodQuery
    /\ remote = BadBody
    /\ exec.status = <<>>
    /\ response.Error = "query execution error: error parsing response"

\* The remote did not give a successful response.
C19_Failed == remote.kind # "response" \/ remote.status.sql_state # "00000"

\* C19: one executeQuery call makes at most one request to the remote
\* endpoint; a failed attempt is not made again and executeQuery returns the
\* failure.
C19_AtMostOneRequest ==
    /\ requests <= 1
    /\ (query = GoodQuery /\ pc \in {"executed", "fill", "done"}) =>
          requests = (IF remote.kind = "norequest" THEN 0 ELSE 1)
    /\ (pc = "executed" /\ C19_Failed) => exec.err # "nil" /\ exec.results = <<>>

\* C19's case: the transport failed and executeQuery has returned.
C19_Witness ==
    /\ pc = "executed"
    /\ remote = Transport
    /\ requests = 1
    /\ exec.err = "error executing query"

\* The names of a frame's fields, in order.
C20_Names(frame) == [i \in 1..Len(frame.fields) |-> frame.fields[i].name]

\* C20: two conversions of the same rows give the fields in the same order.
C20_SameFieldOrder ==
    (pc = "done" /\ Len(response.Frames) = 1 /\ Len(earlier.Frames) = 1) =>
        C20_Names(response.Frames[1]) = C20_Names(earlier.Frames[1])

\* C20's failing case: the same row of two columns was converted twice, to
\* the fields a, b and then to the fields b, a.
C20_Witness ==
    /\ pc = "done"
    /\ Len(remote.data) = 1
    /\ Len(response.Frames) = 1 /\ Len(earlier.Frames) = 1
    /\ C20_Names(earlier.Frames[1]) = <<"a", "b">>
    /\ C20_Names(response.Frames[1]) = <<"b", "a">>

\* The members of strs joined by sep, built from the last member backwards.
RECURSIVE C12_Joined(_, _, _)
C12_Joined(strs, sep, n) ==
    IF n = 0 THEN ""
    ELSE IF n = 1 THEN strs[1]
    ELSE C12_Joined(strs, sep, n - 1) \o sep \o strs[n]

\* SELECT <cols> FROM schema.table for the builder's state.
C12_Head ==
    "SELECT "
      \o (IF builder.selectedColumns = <<>> THEN "*"
          ELSE C12_Joined([i \in DOMAIN builder.selectedColumns |->
                              builder.selectedColumns[i].name], ", ",
                          Len(builder.selectedColumns)))
      \o " FROM " \o builder.schema \o "." \o builder.table

\* The elements of the WHERE part: the i-th clause is the i-th element and
\* the time filter, if any, the one after the last clause.
C12_Elements ==
    [i \in 1..(Len(builder.whereClauses)
                 + (IF builder.timeseriesColumn # "" THEN 1 ELSE 0)) |->
        IF i <= Len(builder.whereClauses)
        THEN builder.whereClauses[i].column \o " "
               \o builder.whereClauses[i].operator \o " '"
               \o builder.whereClauses[i].value \o "'"
        ELSE builder.timeseriesColumn \o " >= $__timeFrom() AND "
               \o builder.timeseriesColumn \o " <= $__timeTo() ORDER BY "
               \o builder.timeseriesColumn \o " ASC"]

\* C12: with schema and table set, buildQuery produces exactly
\* SELECT <cols> FROM schema.table, <cols> being * or the selected names
\* joined by ", ", followed by a WHERE part only when there is a clause or a
\* time-series column: the clauses rendered column operator 'value' in list
\* order, then the time filter as the last element, joined by " AND ".
C12_BuiltQuery ==
    (built # "unset" /\ builder.schema # "" /\ builder.table # "") =>
        /\ (builder.whereClauses = <<>> /\ builder.timeseriesColumn = "")
              => built = C12_Head
        /\ (builder.whereClauses # <<>> \/ builder.timeseriesColumn # "")
              => built = C12_Head \o " WHERE "
                           \o C12_Joined(C12_Elements, " AND ",
                                         Len(C12_Elements))
        /\ (builder.schema = "s" /\ builder.table = "t"
              /\ builder.selectedColumns = <<>>
              /\ builder.whereClauses =
                   <<[column |-> "x", operator |-> "=", value |-> "5"]>>
              /\ builder.timeseriesColumn = "")
              => built = "SELECT * FROM s.t WHERE x = '5'"

\* C12's case: two columns, two clauses and a time-series column, built.
C12_Witness ==
    /\ Len(builder.selectedColumns) = 2
    /\ Len(builder.whereClauses) = 2
    /\ builder.timeseriesColumn = "ts"
    /\ built = "SELECT x, y FROM s.t WHERE x = '5' AND y > '7' AND "
                 \o "ts >= $__timeFrom() AND ts <= $__timeTo() ORDER BY ts ASC"

\* C13: the totalCount getDistinctColumnValues returns is the unfiltered
\* number of distinct non-null values of the column, whatever the search
\* pattern, the offset and the limit of the call: two calls on the same
\* contents that differ only in these return the same totalCount.
C13_TotalCountUnfiltered ==
    (bpc \in {"returned", "done"} /\ caller = "direct" /\ ~MissingName(args)
        /\ sub.count = "ok") =>
        /\ ret.kind = "resolved"
        /\ ret.page.totalCount = ndistinct

\* C13's case: a call with a search pattern on a column of 150 values has
\* returned fewer values than the column has, and the totalCount 150.
C13_Witness ==
    /\ bpc = "returned" /\ caller = "direct"
    /\ ndistinct = 150
    /\ OptSearch(args.options) = "5"
    /\ OptOffset(args.options) = 0
    /\ sub.count = "ok" /\ sub.values = "ok"
    /\ Len(ret.page.values) \in 1..99
    /\ ret.page.totalCount = 150

\* C14: every step that opens the value browser for a filter leaves it on
\* page zero with an empty search text and no selected value, and issues in
\* the same step the request for the first page (offset 0, PAGE_SIZE values,
\* no search pattern) of the distinct values of that filter's column.
C14_Opens == ~ed.isValuesModalOpen /\ ed'.isValuesModalOpen
C14_FirstPageOf(req, column) ==
    /\ req.column = column
    /\ OptOffset(req.options) = 0
    /\ OptLimit(req.options) = PAGE_SIZE
    /\ OptSearch(req.options) = ""
C16_SearchHandled(req) ==
    /\ req.kind = "search"
    /\ CopiesIn(req, pending') < CopiesIn(req, pending)
C16_AutoSelect ==
    [][\A req \in BagToSet(pending) :
          C16_SearchHandled(req) =>
             IF OptSearch(req.options) # "" /\ Len(ed'.distinctValues) = 1
             THEN ed'.selectedValue = ed'.distinctValues[1]
             ELSE ed'.selectedValue = ed.selectedValue]_vars
C16_Witness ==
    /\ bpc = "session"
    /\ ed.isValuesModalOpen
    /\ ~ed.loadingDistinctValues
    /\ ed.currentWhereClauseIndex = 1
    /\ ed.searchFilter = "5"
    /\ Len(ed.distinctValues) = 1
    /\ ed.selectedValue = ed.distinctValues[1]
    /\ pending = EmptyBag

\* C17: currentPage is never below 0, the page computed for "previous" at
\* page 0 is page 0 and no request has a negative offset; and a step that
\* issues the request for the page after the current one starts in a state
\* where hasMoreValues (set by the last handled response) is true and the
\* loading flag is off.
C17_Issued(req) == CopiesIn(req, pending') > CopiesIn(req, pending)
C17_NextIssued ==
    \E req \in BagToSet(pending') :
       /\ C17_Issued(req)
       /\ req.kind = "nav"
       /\ OptOffset(req.options) = (ed.currentPage + 1) * PAGE_SIZE
C17_Navigation ==
    /\ [](/\ ed.currentPage >= 0
          /\ NewPage("prev", 0) = 0
          /\ \A req \in BagToSet(pending) : OptOffset(req.options) >= 0)
    /\ [][C17_NextIssued =>
             ed.hasMoreValues /\ ~ed.loadingDistinctValues]_vars
C17_Witness ==
    /\ bpc = "session"
    /\ ed.isValuesModalOpen
    /\ ed.currentPage = 0
    /\ ed.loadingDistinctValues
    /\ ed.hasMoreValues
    /\ \E column \in {"c", "d"} :
          BagIn(NavRequest(column, 1, ed.searchFilter), pending)

\* C21: the query applyTemplateVariables returns holds no $__timeFrom() and
\* no $__timeTo(); read left to right against the text the host's variable
\* substitution gave, each macro stands replaced by the single-quoted range
\* bound (from, to) written YYYY-MM-DD HH:MM:SS in UTC with zero padding, and
\* every other character is kept; every other field of the query is as it
\* was.
C21_IsBound(text, t) ==
    /\ Len(text) = 19
    /\ C8_Date(text) /\ CharAt(text, 11) = " " /\ C8_Clock(text)
    /\ DigitsVal(text, 1, 4) = t.year
    /\ DigitsVal(text, 6, 7) = t.month
    /\ DigitsVal(text, 9, 10) = t.day
    /\ DigitsVal(text, 12, 13) = t.hours
    /\ DigitsVal(text, 15, 16) = t.minutes
    /\ DigitsVal(text, 18, 19) = t.seconds
C21_QuotedBound(s, j, t) ==
    /\ CharAt(s, j) = "'"
    /\ CharAt(s, j + 20) = "'"
    /\ C21_IsBound(SubSeq(s, j + 1, j + 19), t)
RECURSIVE C21_Replaced(_, _, _, _, _)
C21_Replaced(in, i, out, j, range) ==
    IF i > Len(in) THEN j > Len(out)
    ELSE IF MatchAt(in, i, TimeFromMacro)
    THEN /\ C21_QuotedBound(out, j, range.from)
         /\ C21_Replaced(in, i + Len(TimeFromMacro), out, j + 21, range)
    ELSE IF MatchAt(in, i, TimeToMacro)
    THEN /\ C21_QuotedBound(out, j, range.to)
         /\ C21_Replaced(in, i + Len(TimeToMacro), out, j + 21, range)
    ELSE /\ CharAt(out, j) = CharAt(in, i)
         /\ j <= Len(out)
         /\ C21_Replaced(in, i + 1, out, j + 1, range)
C21_HostText ==
    TemplateSrvReplace(IF "queryText" \in DOMAIN macro.query
                       THEN macro.query.queryText ELSE "",
                       macro.scopedVars)
C21_MacrosReplaced ==
    macro.pc = "applied" =>
       /\ ~Contains(macro.out.queryText, TimeFromMacro)
       /\ ~Contains(macro.out.queryText, TimeToMacro)
       /\ C21_Replaced(C21_HostText, 1, macro.out.queryText, 1, macro.range)
       /\ DOMAIN macro.out = DOMAIN macro.query \cup {"queryText"}
       /\ \A f \in DOMAIN macro.query \ {"queryText"} :
             macro.out[f] = macro.query[f]
C21_Witness ==
    /\ macro.pc = "applied"
    /\ macro.query.refId = "A"
    /\ macro.query.queryText = "$__timeFrom()$__timeTo()"
    /\ macro.range.from # macro.range.to
    /\ macro.out.queryText = "'1999-12-31 23:59:59''2024-01-05 03:04:09'"

\* C22: over successive calls of getDistinctColumnValues, every call with
\* non-empty schema, table and column issues its own count query and then
\* its own value query (the queries issued so far are count, values, count,
\* values, ... two per such call), the value query is not issued before the
\* count query has completed, the page is returned after both have, and
\* its total is the table's count at that time; a call with an empty name
\* returns the empty page and issues nothing.
C22_Alternates ==
    \A i \in 1..Len(sub.issued) :
       sub.issued[i] = IF i % 2 = 1 THEN "distinct_count"
                       ELSE "distinct_values"
C22_EachCallQueriesAnew ==
    /\ C22_Alternates
    /\ bpc = "idle" => Len(sub.issued) = 2 * sub.calls
    /\ bpc = "count" =>
          /\ Len(sub.issued) = 2 * (sub.calls - 1)
          /\ sub.count = "none" /\ sub.values = "none"
    /\ bpc = "values" =>
          /\ Len(sub.issued) = 2 * sub.calls - 1
          /\ sub.count # "none" /\ sub.values = "none"
    /\ (bpc = "returned" /\ ~MissingName(args)) =>
          /\ Len(sub.issued) = 2 * sub.calls
          /\ sub.count # "none" /\ sub.values # "none"
          /\ sub.count = "ok" => ret.page.totalCount = ndistinct
    /\ (bpc = "returned" /\ MissingName(args)) =>
          /\ Len(sub.issued) = 2 * sub.calls
          /\ sub.count = "none" /\ sub.values = "none"
          /\ ret = [kind |-> "resolved", page |-> EmptyPage]
C22_Witness ==
    /\ bpc = "returned"
    /\ caller = "direct"
    /\ ~MissingName(args)
    /\ sub.calls = 2
    /\ sub.issued = <<"distinct_count", "distinct_values",
                      "distinct_count", "distinct_values">>
    /\ ndistinct = SmallDistinct + 2
    /\ ret.page.totalCount = ndistinct

\* C23: when the count query of a call failed or answered with a count that
\* is no number, the call has still issued its value query and returns,
\* without an error, the values that query gave, with totalCount 0 and
\* hasMore false, however many values there are.
C23_CountFailed ==
    /\ bpc \in {"returned", "done"} /\ caller = "direct"
    /\ ~MissingName(args)
    /\ sub.count \in {"rejected", "nodata", "nonnumeric"}
C23_Strings(rows, column) ==
    [i \in 1..Len(rows) |-> ToString(rows[i][column].v)]
C23_ValueStrings ==
    C23_Strings(ValueRows(ndistinct, args.column, OptLimit(args.options),
                          OptOffset(args.options), OptSearch(args.options)),
                args.column)
C23_CountFailureGivesZeroTotal ==
    C23_CountFailed =>
       /\ sub.values # "none"
       /\ Len(sub.issued) > 0
       /\ sub.issued[Len(sub.issued)] = "distinct_values"
       /\ ret.kind = "resolved"
       /\ ret.page.totalCount = 0
       /\ ret.page.hasMore = FALSE
       /\ sub.values = "ok" => ret.page.values = C23_ValueStrings
C23_Witness ==
    /\ C23_CountFailed
    /\ sub.count = "nonnumeric"
    /\ sub.values = "ok"
    /\ ndistinct = MaxDistinct
    /\ Len(ret.page.values) = 100
    /\ ret.page.totalCount = 0
    /\ ~ret.page.hasMore

\* C24: every request the modal issues asks for 100 values at offset 100 * p,
\* p being 0 for the request of an opening and of a search change, and
\* currentPage + 1 or max(0, currentPage - 1) for a navigation; and the step
\* that handles the response of a navigation leaves currentPage at the p of
\* its request, showing the values found at offset 100 * currentPage (none
\* if the value query failed).
C24_Issued(req) == CopiesIn(req, pending') > CopiesIn(req, pending)
C24_Handled(req) == CopiesIn(req, pending') < CopiesIn(req, pending)
C24_Strings(rows, column) ==
    [i \in 1..Len(rows) |-> ToString(rows[i][column].v)]
C24_PageAt(req, offset) ==
    C24_Strings(ValueRows(ndistinct, req.column, 100, offset,
                          OptSearch(req.options)),
                req.column)
C24_PageArithmetic ==
    [][/\ \A req \in BagToSet(pending') :
             C24_Issued(req) =>
                /\ "limit" \in DOMAIN req.options
                /\ req.options.limit = 100
                /\ "offset" \in DOMAIN req.options
                /\ IF req.kind = "nav"
                   THEN req.options.offset \in
                           {100 * (ed.currentPage + 1),
                            100 * Max(0, ed.currentPage - 1)}
                   ELSE req.options.offset = 0
       /\ \A req \in BagToSet(pending) :
             (C24_Handled(req) /\ req.kind = "nav") =>
                /\ 100 * ed'.currentPage = req.options.offset
                /\ ed'.distinctValues \in
                      {C24_PageAt(req, 100 * ed'.currentPage), <<>>}]_vars
C24_Witness ==
    /\ bpc = "session"
    /\ ed.isValuesModalOpen
    /\ ~ed.loadingDistinctValues
    /\ pending = EmptyBag
    /\ ed.currentPage = 1
    /\ ndistinct = MaxDistinct
    /\ Len(ed.distinctValues) = MaxDistinct - 100
    /\ ed.distinctValues[1] = "101"

\* C25: whenever the modal is open and none of its requests is in flight,
\* what it shows is the answer to its latest request: the values are the
\* page at offset 100 * currentPage of the values of the browsed column that
\* match the current searchFilter, totalCount is the column's count and
\* hasMore tells whether values follow that page (or a sub-query failed and
\* the values are none or the total is 0), whatever the order the responses
\* came in.
C25_Quiet == Browsing /\ ed.isValuesModalOpen /\ pending = EmptyBag
C25_Strings(rows, column) ==
    [i \in 1..Len(rows) |-> ToString(rows[i][column].v)]
C25_CurrentPage ==
    C25_Strings(ValueRows(ndistinct,
                          WhereColumns[ed.currentWhereClauseIndex + 1],
                          100, 100 * ed.currentPage, ed.searchFilter),
                WhereColumns[ed.currentWhereClauseIndex + 1])
C25_ShowsLatestRequest ==
    C25_Quiet =>
       \/ ed.distinctValues = <<>>
       \/ ed.totalValueCount = 0
       \/ /\ ed.distinctValues = C25_CurrentPage
          /\ ed.totalValueCount = ndistinct
          /\ ed.hasMoreValues =
                (100 * ed.currentPage + Len(ed.distinctValues)
                    < ed.totalValueCount)

\* C25's failing case: the modal was opened for column "c", dismissed and
\* opened for column "d" before the first response; the response for "c"
\* came last and its values are shown under column "d".
C25_Witness ==
    /\ C25_Quiet
    /\ ed.currentWhereClauseIndex = 1
    /\ ed.searchFilter = ""
    /\ ed.currentPage = 0
    /\ Len(ed.distinctValues) = 100
    /\ ed.distinctValues[1] = "1"

\* C26: in every state in which a request of the modal is in flight,
\* loadingDistinctValues is true, so that neither Previous nor Next is
\* enabled then, and at no time are two navigation requests in flight.
C26_NavsInFlight ==
    {req \in BagToSet(pending) : req.kind = "nav"}
C26_LoadingCoversInFlight ==
    (Browsing /\ pending # EmptyBag) =>
       /\ ed.loadingDistinctValues
       /\ ~PrevEnabled(ed) /\ ~NextEnabled(ed)
       /\ \A req \in C26_NavsInFlight : CopiesIn(req, pending) = 1
       /\ Cardinality(C26_NavsInFlight) <= 1

\* C26's failing case: two navigation requests are in flight at once.
C26_Witness ==
    /\ Browsing
    /\ ed.isValuesModalOpen
    /\ BagCardinality(pending) = 2
    /\ \A req \in BagToSet(pending) : req.kind = "nav"

\* The call has returned a page and both its sub-queries succeeded.
C27_Returned ==
    /\ bpc \in {"returned", "done"} /\ caller = "direct"
    /\ ~MissingName(args)
    /\ sub.count = "ok" /\ sub.values = "ok"
    /\ ret.kind = "resolved"

\* The number of values the request for the following page returns on the
\* same table: the same search pattern, at the offset advanced by the
\* number of values a page holds.
C27_NextPageLen ==
    Len(ValueRows(ndistinct, args.column, OptLimit(args.options),
                  OptOffset(args.options) + OptLimit(args.options),
                  OptSearch(args.options)))

C28_FailedValueFetches ==
    {Fetch(reply, delivery) :
        reply \in FailedReplies, delivery \in {"reject", "resolve"}}
C28_FailedOutcomes(n, req) ==
    {RequestSettles(req, countFetch, valuesFetch) :
        countFetch \in CountFetches(n),
        valuesFetch \in C28_FailedValueFetches}

\* C28: a step that settles a page navigation whose value query failed
\* leaves currentPage, the displayed values, totalCount and hasMore as they
\* were.
C28_FailedNavKeepsSession ==
    [][\A req \in BagToSet(pending) :
          (/\ Browsing
           /\ req.kind = "nav"
           /\ pending' = pending (-) SetToBag({req})
           /\ \E settled \in C28_FailedOutcomes(ndistinct, req) :
                 ed' = Settled(ed, req, settled))
          => /\ ed'.currentPage = ed.currentPage
             /\ ed'.distinctValues = ed.distinctValues
             /\ ed'.totalValueCount = ed.totalValueCount
             /\ ed'.hasMoreValues = ed.hasMoreValues]_vars

\* C28's failing case: on a column of 150 values and without a search text
\* the second page is current and shows no value, which only a failed
\* fetch of that page produces.
C28_Witness ==
    /\ Browsing
    /\ ed.isValuesModalOpen
    /\ pending = EmptyBag
    /\ ndistinct = MaxDistinct
    /\ ed.searchFilter = ""
    /\ ed.currentPage = 1
    /\ ed.distinctValues = <<>>

\* The selected columns whose isTimeseriesColumn flag is set.
C29_TimeFlagged ==
    {i \in DOMAIN builder.selectedColumns :
        builder.selectedColumns[i].isTimeseriesColumn}

\* C29: in the column selection no name occurs twice, at most one column is
\* flagged as the time-series column, and timeseriesColumn is set exactly
\* when a column is flagged and then is that column's name.
C29_SelectionConsistent ==
    Selecting =>
       /\ \A i, j \in DOMAIN builder.selectedColumns :
             builder.selectedColumns[i].name = builder.selectedColumns[j].name
                => i = j
       /\ Cardinality(C29_TimeFlagged) <= 1
       /\ (builder.timeseriesColumn # "") <=> (C29_TimeFlagged # {})
       /\ \A i \in C29_TimeFlagged :
             builder.selectedColumns[i].name = builder.timeseriesColumn

\* C29's case: the time-series flag has moved from one selected timestamp
\* column to the other, with a third column selected.
C29_Witness ==
    /\ Selecting
    /\ Len(builder.selectedColumns) = 3
    /\ builder.selectedColumns[1].name = "ts"
    /\ ~builder.selectedColumns[1].isTimeseriesColumn
    /\ builder.selectedColumns[2].name = "day"
    /\ builder.selectedColumns[2].isTimeseriesColumn
    /\ builder.timeseriesColumn = "day"

\* The i-th query of the request fails: its JSON does not decode, its text
\* is empty, the transport fails or the remote answers with an SQL error.
C30_Fails(i) ==
    LET q == batch.queries[i]
    IN  \/ q.query.json = "bad"
        \/ q.query.queryText = ""
        \/ q.remote.kind # "response"
        \/ q.remote.status.sql_state # "00000"

\* The frames the i-th query has on its own, whatever the others do: none
\* when it fails, the frame of its rows otherwise.
C30_OwnFrames(i) ==
    LET q == batch.queries[i]
    IN  IF C30_Fails(i) THEN <<>>
        ELSE <<ConvertOrdered(q.remote.data, OnlyOrder(q.remote.data))>>

\* C30: QueryData has executed the queries before position i in order, the
\* response map holds one entry per RefID of these, a failing query's entry
\* is an error response and a succeeding one's the frame of its own rows,
\* whatever the other queries did; QueryData returns after the last query,
\* without an error.
C30_EveryQueryAnswered ==
    Serving =>
       /\ batch.i \in 1..(Len(batch.queries) + 1)
       /\ DOMAIN batch.responses =
             {batch.queries[k].RefID : k \in 1..(batch.i - 1)}
       /\ \A k \in 1..(batch.i - 1) :
             LET res == batch.responses[batch.queries[k].RefID]
             IN  /\ (res.Error # "") = C30_Fails(k)
                 /\ res.Frames = C30_OwnFrames(k)
       /\ batch.pc = "returned" =>
             /\ batch.i = Len(batch.queries) + 1
             /\ batch.err = "nil"

\* C30's case: QueryData has returned for three queries of which the second
\* failed and the first and the third succeeded.
C30_Witness ==
    /\ batch.pc = "returned"
    /\ Len(batch.queries) = 3
    /\ ~C30_Fails(1) /\ C30_Fails(2) /\ ~C30_Fails(3)
    /\ batch.responses["B"].Error # ""
    /\ batch.responses["A"].Error = ""
    /\ batch.responses["C"].Error = ""
    /\ Len(batch.responses["C"].Frames) = 1
====
